---------------------------- MODULE Spec2Model ----------------------------
(***************************************************************************)
(* A model of the nodejs_resolver core: Resolver::new, Resolver::resolve,  *)
(* Resolver::_resolve (src/src/lib.rs), resolve_as_file, resolve_as_dir,   *)
(* resolve_as_modules, get_module_name_from_request (src/src/resolve.rs)   *)
(* and MainFieldPlugin::apply (src/src/plugin/main_field.rs).              *)
(*                                                                         *)
(* Strings are TLA+ strings and paths are strings, as PathBuf is in Rust:  *)
(* join pushes text, append_ext_for_path concatenates text, and only the   *)
(* filesystem probe and path equality look at a path's components.  A      *)
(* string is a sequence of characters; a Rust string is UTF-8, where a     *)
(* character takes utf8_len bytes.  The letters TwoByteChar and            *)
(* ThreeByteChar stand for a character of two bytes (such as U+00E9) and   *)
(* of three bytes (such as U+65E5); every other character is ASCII.        *)
(*                                                                         *)
(* A resolve call is run one filesystem probe at a time.  The resolution   *)
(* functions are operators over the observations a call has made so far    *)
(* (its view); they end in a final state or in Pending(p), the next path   *)
(* the code passes to load_entry.  The LoadEntry actions answer that probe *)
(* from the cache or from the filesystem and the call goes on.             *)
(***************************************************************************)
EXTENDS Naturals, Sequences, FiniteSets, TLC

VARIABLES
    fs,          \* the directory tree
    config,      \* the ResolverOptions given to Resolver::new
    inputs,      \* the (base, request) pairs the callers may pass to resolve
    resolvers,   \* the Resolvers constructed so far, in order: of each its
                 \* options and the manifest cache it holds
    on,          \* per caller: the resolver its resolve call is made on
    entries,     \* per resolver: its entry cache, path -> Entry
    unsafe_cache,\* ResolverUnsafeCache.pkg_info, manifest directory -> manifest:
                 \* the cache of each resolver that has its own, and the
                 \* external one the options may hand to Resolver::new
    calls_left,  \* how many more resolve calls will be made
    builds_left, \* how many more resolvers will be constructed
    pc,          \* per caller: "off", "idle", "running", "loaded", "read", "done"
    call,        \* per caller: the arguments of its resolve call
    view,        \* per caller: the entries its call has got from load_entry
    probes,      \* per caller: the paths its call has passed to load_entry
    pending,     \* per caller: what it read from the filesystem, not yet cached
    result,      \* per caller: what its resolve call returned
    name_in,     \* the target given to get_module_name_from_request
    name_out,    \* the module name it returned
    returned,    \* per caller: the first result of each call it has completed
                 \* on the resolver it is calling
    unit_in,     \* a resolution function called on its own, and its arguments
    unit_out     \* the State that call returned

vars == <<fs, config, inputs, resolvers, on, entries, unsafe_cache, calls_left,
          builds_left, pc, call, view, probes, pending, result, name_in, name_out,
          returned, unit_in, unit_out>>

(***************************************************************************)
(* Text.                                                                   *)
(***************************************************************************)
CharAt(s, i) == SubSeq(s, i, i)

starts_with(s, p) == Len(s) >= Len(p) /\ SubSeq(s, 1, Len(p)) = p

ends_with(s, p) == Len(s) >= Len(p) /\ SubSeq(s, Len(s) - Len(p) + 1, Len(s)) = p

strip_prefix(s, p) == SubSeq(s, Len(p) + 1, Len(s))

\* The characters that are not ASCII, and the bytes a character takes.
TwoByteChar   == "E"
ThreeByteChar == "W"

utf8_len(c) == IF c = TwoByteChar THEN 2 ELSE IF c = ThreeByteChar THEN 3 ELSE 1

\* The bytes of the first k characters of s.
RECURSIVE byte_len(_, _)
byte_len(s, k) == IF k = 0 THEN 0 ELSE byte_len(s, k - 1) + utf8_len(CharAt(s, k))

SlicePanic == "<panic>"

\* &s[0..index]: the text of the first index bytes of s; a panic when that
\* many bytes do not end at a character boundary.
str_slice_to(s, index) ==
    IF \E k \in 0..Len(s) : byte_len(s, k) = index
    THEN SubSeq(s, 1, CHOOSE k \in 0..Len(s) : byte_len(s, k) = index)
    ELSE SlicePanic

\* The indices of s, in order, that hold the character c.
RECURSIVE IndicesOf(_, _, _)
IndicesOf(s, c, i) ==
    IF i > Len(s) THEN <<>>
    ELSE IF CharAt(s, i) = c THEN <<i>> \o IndicesOf(s, c, i + 1)
    ELSE IndicesOf(s, c, i + 1)

\* s cut at every '/': "a/b" gives <<"a", "b">>, "" gives <<"">>.
RECURSIVE SplitFrom(_, _, _)
SplitFrom(s, start, i) ==
    IF i > Len(s) THEN <<SubSeq(s, start, Len(s))>>
    ELSE IF CharAt(s, i) = "/"
         THEN <<SubSeq(s, start, i - 1)>> \o SplitFrom(s, i + 1, i + 1)
         ELSE SplitFrom(s, start, i + 1)

Split(s) == SplitFrom(s, 1, 1)

(***************************************************************************)
(* Paths (std::path).                                                      *)
(***************************************************************************)
\* Path::components of an absolute path: the names between separators, with
\* empty names and "." dropped and ".." kept.
RECURSIVE DropCurDir(_)
DropCurDir(names) ==
    IF names = <<>> THEN <<>>
    ELSE IF Head(names) \in {"", "."} THEN DropCurDir(Tail(names))
    ELSE <<Head(names)>> \o DropCurDir(Tail(names))

components(path) == DropCurDir(Split(path))

\* The components with every ".." resolved against the name before it.
RECURSIVE Lexical(_, _)
Lexical(done, names) ==
    IF names = <<>> THEN done
    ELSE IF Head(names) = ".."
         THEN Lexical(IF done = <<>> THEN <<>> ELSE SubSeq(done, 1, Len(done) - 1),
                      Tail(names))
         ELSE Lexical(Append(done, Head(names)), Tail(names))

RECURSIVE Display(_)
Display(names) ==
    IF names = <<>> THEN ""
    ELSE "/" \o Head(names) \o Display(Tail(names))

as_path(names) == IF names = <<>> THEN "/" ELSE Display(names)

\* The path a probe looks at, and the form normalize_result returns.
normalize(path) == as_path(Lexical(<<>>, components(path)))

\* PathBuf equality compares components.
path_eq(a, b) == components(a) = components(b)

\* Path::join: an absolute argument replaces the path, any other is pushed
\* after a separator.
join(path, other) ==
    IF starts_with(other, "/") THEN other
    ELSE IF path # "" /\ ~ends_with(path, "/") THEN path \o "/" \o other
    ELSE path \o other

NoParent == "<none>"

\* The names of a path's text without the empty names and the "." that it
\* ends with.
RECURSIVE TrimBack(_)
TrimBack(names) ==
    IF names # <<>> /\ names[Len(names)] \in {"", "."}
    THEN TrimBack(SubSeq(names, 1, Len(names) - 1))
    ELSE names

\* Path::parent of an absolute path: the text before its last component,
\* with the "." and ".." inside that text kept; none for the root.
parent(path) ==
    LET names == TrimBack(Tail(Split(path)))
    IN IF names = <<>> THEN NoParent
       ELSE as_path(TrimBack(SubSeq(names, 1, Len(names) - 1)))

(***************************************************************************)
(* Requests (parse) and ResolverInfo.                                      *)
(***************************************************************************)
\* The first index >= i of s holding c and not escaped by a backslash
\* before it; 0 when there is none.
RECURSIVE find_unescaped(_, _, _)
find_unescaped(s, c, i) ==
    IF i > Len(s) THEN 0
    ELSE IF CharAt(s, i) = c /\ ~(i > 1 /\ CharAt(s, i - 1) = "\\") THEN i
    ELSE find_unescaped(s, c, i + 1)

\* PathKind of a target, by its prefix.
get_target_kind(target) ==
    IF target = "" THEN "Empty"
    ELSE IF starts_with(target, "#") THEN "Internal"
    ELSE IF starts_with(target, "./") \/ starts_with(target, "../") THEN "Relative"
    ELSE IF starts_with(target, "/") THEN "AbsolutePosix"
    ELSE "Normal"

\* parse: raw is cut at its first '#' into head and fragment, and head at
\* its first '?' into target and query.  A leading '#' opens an internal
\* specifier and does not start the fragment.
parse(raw) ==
    LET h    == find_unescaped(raw, "#", 2)
        head == IF h = 0 THEN raw ELSE SubSeq(raw, 1, h - 1)
        frag == IF h = 0 THEN "" ELSE SubSeq(raw, h, Len(raw))
        q    == find_unescaped(head, "?", 1)
        tgt  == IF q = 0 THEN head ELSE SubSeq(head, 1, q - 1)
        qry  == IF q = 0 THEN "" ELSE SubSeq(head, q, Len(head))
    IN [target |-> tgt, query |-> qry, fragment |-> frag,
        kind |-> get_target_kind(tgt)]

NoRequest == [target |-> "", query |-> "", fragment |-> "", kind |-> "Empty"]
NoInfo    == [path |-> "", request |-> NoRequest]

Info_from(path, request) == [path |-> path, request |-> request]

get_path(info) ==
    IF info.request.target = "" THEN info.path
    ELSE join(info.path, info.request.target)

with_path(info, path) == [info EXCEPT !.path = path]

\* Request::with_target looks the new target's kind up through the resolver.
with_target(info, target) ==
    [info EXCEPT !.request.target = target,
                 !.request.kind = get_target_kind(target)]

\* The path with query and fragment appended.
Info_join(info) == info.path \o info.request.query \o info.request.fragment

\* Info::normalized_path: the base joined with the target, normalized.
normalized_path(info) == normalize(get_path(info))

(***************************************************************************)
(* Resolution states.  Failed(info) is the not-yet-final failure: in       *)
(* lib.rs it is the Error that carries RAISE_RESOLVE_ERROR_TAG.  Pending   *)
(* Panic and Abort are not values of the program: Pending(p) says that the *)
(* code is at load_entry(p) or load_pkg_file(p) with no answer yet, Panic  *)
(* that an unreachable!() was executed, Abort(why) that the call did not   *)
(* return for another reason: a slice that does not end at a character     *)
(* boundary, or a recursion without end, which exhausts the stack.         *)
(***************************************************************************)
NoErr == [kind |-> "", request |-> "", path |-> ""]

Err(kind, request, path) == [kind |-> kind, request |-> request, path |-> path]

Success(info) ==
    [tag |-> "Success", res |-> "Info", info |-> info, err |-> NoErr, depth |-> 0]
Ignored ==
    [tag |-> "Success", res |-> "Ignored", info |-> NoInfo, err |-> NoErr, depth |-> 0]
Resolving(info) ==
    [tag |-> "Resolving", res |-> "", info |-> info, err |-> NoErr, depth |-> 0]
Failed(info) ==
    [tag |-> "Failed", res |-> "", info |-> info, err |-> NoErr, depth |-> 0]
Error(err, info) ==
    [tag |-> "Error", res |-> "", info |-> info, err |-> err, depth |-> 0]
Pending(path, depth) ==
    [tag |-> "Pending", res |-> "", info |-> with_path(NoInfo, path), err |-> NoErr,
     depth |-> depth]
PendingPkgFile(path, depth) ==
    [tag |-> "Pending", res |-> "load_pkg_file", info |-> with_path(NoInfo, path),
     err |-> NoErr, depth |-> depth]
Panic(info) ==
    [tag |-> "Panic", res |-> "", info |-> info, err |-> NoErr, depth |-> 0]

Abort(why, info) ==
    [tag |-> "Abort", res |-> why, info |-> info, err |-> NoErr, depth |-> 0]

is_resolving(state) == state.tag = "Resolving"

\* ResolverStats::and_then (State::then): op is applied to a Resolving
\* state's info; every other state is returned as it is.
and_then(state, applied) == IF is_resolving(state) THEN applied ELSE state

is_success(state) == state.tag = "Success"

\* State::is_finished: a terminal success or a fatal error.
is_finished(state) == state.tag \in {"Success", "Error", "Pending", "Panic", "Abort"}

(***************************************************************************)
(* The filesystem probe and the entry cache (load_entry).                  *)
(***************************************************************************)
NoPkg == [dir_path |-> "", name |-> "", raw |-> <<>>, exports |-> <<>>,
          imports |-> <<>>, browser |-> <<>>, found |-> FALSE]

key_of(path) == as_path(components(path))

\* The nearest manifest at or above directory dir: found, none, or broken.
RECURSIVE nearest_manifest(_, _)
nearest_manifest(tree, dir) ==
    IF dir \in tree.broken THEN [tag |-> "Err", kind |-> "", pkg_info |-> NoPkg,
                                 err |-> Err("ManifestParse", "", dir)]
    ELSE IF dir \in DOMAIN tree.manifests
         THEN [tag |-> "Ok", kind |-> "", err |-> NoErr,
               pkg_info |-> [tree.manifests[dir] EXCEPT !.dir_path = dir, !.found = TRUE]]
    ELSE IF parent(dir) = NoParent
         THEN [tag |-> "Ok", kind |-> "", pkg_info |-> NoPkg, err |-> NoErr]
    ELSE nearest_manifest(tree, parent(dir))

\* What the filesystem holds at path: its kind and its nearest manifest.
probe(tree, path) ==
    LET p    == normalize(path)
        kind == IF p \in tree.files THEN "File"
                ELSE IF p \in tree.dirs THEN "Directory" ELSE "Missing"
        from == IF kind = "Directory" \/ parent(p) = NoParent THEN p ELSE parent(p)
        m    == nearest_manifest(tree, from)
    IN IF p \in tree.io_errors
       THEN [tag |-> "Err", kind |-> "", pkg_info |-> NoPkg, err |-> Err("Io", "", p)]
       ELSE [m EXCEPT !.kind = IF m.tag = "Ok" THEN kind ELSE ""]

\* load_entry within a call: the answer the call has observed for the path.
load_entry(rs, path, running) ==
    IF key_of(path) \in DOMAIN rs.view THEN rs.view[key_of(path)]
    ELSE [tag |-> "Pending", kind |-> "", pkg_info |-> NoPkg, err |-> NoErr,
          path |-> path, depth |-> Len(running)]

\* load_pkg_file within a call: the nearest manifest the call has got for
\* the path.
pkg_file_key(path) == "package.json:" \o key_of(path)

load_pkg_file(rs, path, running) ==
    IF pkg_file_key(path) \in DOMAIN rs.view THEN rs.view[pkg_file_key(path)]
    ELSE [tag |-> "Pending", kind |-> "", pkg_info |-> NoPkg, err |-> NoErr,
          path |-> path, depth |-> Len(running)]

\* The state _resolve leaves with when load_pkg_file gave no manifest.
no_pkg_file(e, path, info) ==
    IF e.tag = "Pending" THEN PendingPkgFile(path, e.depth) ELSE Error(e.err, info)

\* A caller of load_entry that goes on after an error as if nothing had been
\* found.
no_entry_goes_on(e, path, info) ==
    IF e.tag = "Pending" THEN Pending(path, e.depth) ELSE Resolving(info)

\* The state a caller of load_entry leaves with when it got no entry.
no_entry(e, path, info) ==
    IF e.tag = "Pending" THEN Pending(path, e.depth) ELSE Error(e.err, info)

is_file(e) == e.kind = "File"
is_dir(e)  == e.kind = "Directory"

(***************************************************************************)
(* Directory trees.                                                        *)
(***************************************************************************)
RECURSIVE ancestors(_)
ancestors(dir) ==
    IF parent(dir) = NoParent THEN {dir} ELSE {dir} \cup ancestors(parent(dir))

Manifest(name, raw, exports, imports, browser) ==
    [dir_path |-> "", name |-> name, raw |-> raw, exports |-> exports,
     imports |-> imports, browser |-> browser, found |-> FALSE]

\* A tree: its regular files, its directories (every directory above a file,
\* a manifest or a listed directory exists), the parsed package.json of the
\* directories that have one, the directories whose package.json does not
\* parse, and the paths whose probe fails.
Tree(files, dirs, manifests, broken, io_errors) ==
    [files     |-> files,
     dirs      |-> UNION {ancestors(parent(f)) : f \in files}
                   \cup UNION {ancestors(d) : d \in dirs \cup DOMAIN manifests \cup broken},
     manifests |-> manifests,
     broken    |-> broken,
     io_errors |-> io_errors]

(***************************************************************************)
(* Resolver::new.                                                          *)
(***************************************************************************)
MODULE_DIR == "node_modules"

NoTsconfig == [set |-> FALSE, base_url |-> "", paths |-> <<>>]

\* ResolverOptions::default().
ResolverOptions_default ==
    [extensions |-> <<".js", ".json", ".node">>, enforce_extension |-> "Auto",
     main_fields |-> <<"main">>, main_files |-> <<"index">>, alias |-> <<>>,
     prefer_relative |-> FALSE, tsconfig |-> NoTsconfig, unsafe_cache |-> "None"]

strip_dot(s) == IF starts_with(s, ".") THEN strip_prefix(s, ".") ELSE s

any_empty(extensions) == \E i \in DOMAIN extensions : extensions[i] = ""

\* Resolver::new that looks for an empty extension before stripping the dots.
Resolver_new_unstripped(options) ==
    LET extensions == [i \in DOMAIN options.extensions |->
                          strip_dot(options.extensions[i])]
        enforce_extension ==
            IF options.enforce_extension = "Auto"
            THEN (IF any_empty(options.extensions) THEN "Enabled" ELSE "Disabled")
            ELSE options.enforce_extension
    IN [options EXCEPT !.extensions = extensions,
                       !.enforce_extension = enforce_extension]

Resolver_new(options) ==
    LET extensions == [i \in DOMAIN options.extensions |->
                          strip_dot(options.extensions[i])]
        enforce_extension ==
            IF options.enforce_extension = "Auto"
            THEN (IF any_empty(extensions) THEN "Enabled" ELSE "Disabled")
            ELSE options.enforce_extension
    IN [options EXCEPT !.extensions = extensions,
                       !.enforce_extension = enforce_extension]

(***************************************************************************)
(* resolve.rs: files.                                                      *)
(***************************************************************************)
append_ext_for_path(path, ext) == path \o ext

RECURSIVE resolve_file_with_ext_from(_, _, _, _, _)
resolve_file_with_ext_from(rs, extensions, path, info, running) ==
    IF extensions = <<>> THEN Resolving(info)
    ELSE LET with_ext == append_ext_for_path(path, Head(extensions))
             entry    == load_entry(rs, with_ext, running)
         IN IF entry.tag # "Ok" THEN no_entry(entry, with_ext, info)
            ELSE IF is_file(entry)
                 THEN Success(with_target(with_path(info, with_ext), ""))
            ELSE resolve_file_with_ext_from(rs, Tail(extensions), path, info, running)

resolve_file_with_ext(rs, path, info, running) ==
    resolve_file_with_ext_from(rs, rs.options.extensions, path, info, running)

\* resolve_as_file without the is_file test: whatever the probe found is taken.
resolve_as_file_unchecked(rs, info, running) ==
    LET path == get_path(info)
    IN IF rs.options.enforce_extension = "Enabled"
       THEN resolve_file_with_ext(rs, path, info, running)
       ELSE LET entry == load_entry(rs, path, running)
            IN IF entry.tag # "Ok" THEN no_entry(entry, path, info)
               ELSE Success(with_target(with_path(info, path), ""))

\* resolve_as_file that leaves the target in the result.
resolve_as_file_keeps_target(rs, info, running) ==
    LET path == get_path(info)
    IN IF rs.options.enforce_extension = "Enabled"
       THEN resolve_file_with_ext(rs, path, info, running)
       ELSE LET entry == load_entry(rs, path, running)
            IN IF entry.tag # "Ok" THEN no_entry(entry, path, info)
               ELSE IF is_file(entry) THEN Success(with_path(info, path))
               ELSE resolve_file_with_ext(rs, path, info, running)

\* resolve_as_file that probes the bare path whatever the enforcement.
resolve_as_file_ignores_enforce(rs, info, running) ==
    LET path == get_path(info)
    IN LET entry == load_entry(rs, path, running)
       IN IF entry.tag # "Ok" THEN no_entry(entry, path, info)
          ELSE IF is_file(entry)
               THEN Success(with_target(with_path(info, path), ""))
          ELSE resolve_file_with_ext(rs, path, info, running)

resolve_as_file(rs, info, running) ==
    LET path == get_path(info)
    IN IF rs.options.enforce_extension = "Enabled"
       THEN resolve_file_with_ext(rs, path, info, running)
       ELSE LET entry == load_entry(rs, path, running)
            IN IF entry.tag # "Ok" THEN no_entry(entry, path, info)
               ELSE IF is_file(entry)
                    THEN Success(with_target(with_path(info, path), ""))
               ELSE resolve_file_with_ext(rs, path, info, running)

\* MainFilePlugin: each main file name under the directory, with each
\* extension; no hit is a Failed.
RECURSIVE MainFilePlugin_from(_, _, _, _)
MainFilePlugin_from(rs, main_files, info, running) ==
    IF main_files = <<>> THEN Failed(info)
    ELSE LET state == resolve_file_with_ext(
                          rs, join(get_path(info), Head(main_files)), info, running)
         IN IF is_finished(state) THEN state
            ELSE MainFilePlugin_from(rs, Tail(main_files), info, running)

MainFilePlugin_apply(rs, info, running) ==
    MainFilePlugin_from(rs, rs.options.main_files, info, running)

\* slash_index_list holds the positions of the '/' counted in characters;
\* the chosen one is used as a number of bytes.
get_module_name_from_request(target) ==
    LET has_namespace_scope == starts_with(target, "@")
        slash_index_list    == IndicesOf(target, "/", 1)
        wanted              == IF has_namespace_scope THEN 2 ELSE 1
    IN IF Len(slash_index_list) >= wanted
       THEN str_slice_to(target, slash_index_list[wanted] - 1)
       ELSE target

is_resolve_self(pkg_info, request_module_name) ==
    pkg_info.name # "" /\ request_module_name = pkg_info.name

(***************************************************************************)
(* The pipeline.  _resolve is re-entered by the plugins and by the ascent  *)
(* of resolve_as_modules; running holds the infos of the _resolve calls    *)
(* that have not returned, the outermost first.                            *)
(***************************************************************************)
RECURSIVE _resolve(_, _, _)
RECURSIVE MainFieldPlugin_from(_, _, _, _, _, _)
RECURSIVE resolve_as_modules(_, _, _)

IgnoreAlias == "<ignore>"
FalseAlias  == "<false>"

alias_matches(target, key) == target = key \/ starts_with(target, key \o "/")

\* The i-th entry, once it decides, decides every re-entry it makes: its
\* value matches its own key, and no entry before it has a key that the
\* rewritten targets could come to match.  The rewriting does not end.
alias_without_end(alias, i) ==
    /\ alias[i].value \notin {IgnoreAlias, FalseAlias}
    /\ alias_matches(alias[i].value, alias[i].key)
    /\ \A j \in 1..(i - 1) : ~starts_with(alias[j].key, alias[i].key \o "/")

\* AliasPlugin: the first entry whose key matches the target decides.  The
\* plugin is the first stage of _resolve, so a rewriting without end nests
\* _resolve calls, with nothing probed, until the stack is exhausted.
RECURSIVE AliasPlugin_from(_, _, _, _)
AliasPlugin_from(rs, i, info, running) ==
    IF i > Len(rs.options.alias) THEN Resolving(info)
    ELSE LET entry  == rs.options.alias[i]
             target == info.request.target
         IN IF ~alias_matches(target, entry.key)
            THEN AliasPlugin_from(rs, i + 1, info, running)
            ELSE IF entry.value = IgnoreAlias THEN Ignored
            ELSE IF entry.value = FalseAlias THEN Resolving(info)
            ELSE IF alias_without_end(rs.options.alias, i)
            THEN Abort("stack overflow", info)
            ELSE _resolve(rs,
                          with_target(info, entry.value \o strip_prefix(target, entry.key)),
                          running)

AliasPlugin_apply(rs, info, running) ==
    AliasPlugin_from(rs, 1, info, running)

\* PreferRelativePlugin: a bare request is first tried as "./request"; a
\* success wins, a fatal error is surfaced, and when nothing was found the
\* resolution goes on with the original info.
PreferRelativePlugin_apply(rs, info, running) ==
    IF rs.options.prefer_relative /\ info.request.kind = "Normal"
    THEN LET state == _resolve(rs, with_target(info, "./" \o info.request.target), running)
         IN IF state.tag \in {"Success", "Pending", "Panic", "Abort"} THEN state
            ELSE IF state.tag = "Error" /\ state.err.kind # "NotFound" THEN state
            ELSE Resolving(info)
    ELSE Resolving(info)

\* ImportsFieldPlugin: an internal request is looked up in the imports map.
ImportsFieldPlugin_apply(rs, pkg_info, info, running) ==
    IF info.request.kind # "Internal" \/ ~pkg_info.found \/ pkg_info.imports = <<>>
    THEN Resolving(info)
    ELSE IF info.request.target \notin DOMAIN pkg_info.imports
    THEN Error(Err("PackagePathNotExported", info.request.target, pkg_info.dir_path),
               info)
    ELSE LET to == with_target(with_path(info, pkg_info.dir_path),
                               pkg_info.imports[info.request.target])
         IN IF to.request.kind = "Normal" THEN _resolve(rs, to, running)
            ELSE Resolving(to)

\* AliasFieldPlugin: the manifest's alias field replaces or ignores a target.
AliasFieldPlugin_apply(rs, pkg_info, info, running) ==
    IF ~pkg_info.found \/ info.request.target \notin DOMAIN pkg_info.browser
    THEN Resolving(info)
    ELSE IF pkg_info.browser[info.request.target] = FalseAlias THEN Ignored
    ELSE _resolve(rs,
                  with_target(with_path(info, pkg_info.dir_path),
                              pkg_info.browser[info.request.target]),
                  running)

\* ExportsFieldPlugin: the subpath after the module name is looked up in the
\* exports map and the request goes on from the manifest's directory.
ExportsFieldPlugin_apply(rs, pkg_info, info, running) ==
    LET target  == info.request.target
        subpath == "." \o strip_prefix(target, get_module_name_from_request(target))
    IN IF pkg_info.exports = <<>> THEN Resolving(info)
       ELSE IF subpath \notin DOMAIN pkg_info.exports
       THEN Error(Err("PackagePathNotExported", target, pkg_info.dir_path), info)
       ELSE Resolving(with_target(with_path(info, pkg_info.dir_path),
                                  pkg_info.exports[subpath]))

\* MainFieldPlugin::apply, the loop over the configured main fields.
MainFieldPlugin_from(rs, pkg_info, info, main_field_info, main_fields, running) ==
    IF main_fields = <<>> THEN Resolving(info)
    ELSE LET user_main_field == Head(main_fields)
         IN IF user_main_field \notin DOMAIN pkg_info.raw
            THEN MainFieldPlugin_from(rs, pkg_info, info, main_field_info,
                                      Tail(main_fields), running)
            ELSE LET main_field == pkg_info.raw[user_main_field]
                 IN IF main_field = "." \/ main_field = "./"
                    THEN Resolving(info)
                    ELSE LET to == IF starts_with(main_field, "./")
                                   THEN with_target(main_field_info, main_field)
                                   ELSE with_target(main_field_info, "./" \o main_field)
                             state == _resolve(rs, to, running)
                         IN IF is_finished(state) THEN state
                            ELSE MainFieldPlugin_from(rs, pkg_info, info, main_field_info,
                                                      Tail(main_fields), running)

\* MainFieldPlugin::apply without the test that the manifest is the
\* directory's own.
MainFieldPlugin_apply_any_dir(rs, pkg_info, info, running) ==
    MainFieldPlugin_from(rs, pkg_info, info,
                         Info_from(normalized_path(info), info.request),
                         rs.options.main_fields, running)

MainFieldPlugin_apply(rs, pkg_info, info, running) ==
    LET path == normalized_path(info)
    IN IF ~path_eq(pkg_info.dir_path, path) THEN Resolving(info)
       ELSE MainFieldPlugin_from(rs, pkg_info, info, Info_from(path, info.request),
                                 rs.options.main_fields, running)

\* resolve_as_dir, from its last step to its first: MainFilePlugin runs when
\* the main fields left the request open.
resolve_as_dir_main_file(rs, state, running) ==
    IF is_resolving(state) THEN MainFilePlugin_apply(rs, state.info, running)
    ELSE state

resolve_as_dir_entry(rs, info, dir, entry, running) ==
    IF entry.tag # "Ok" THEN no_entry(entry, dir, info)
    ELSE IF ~is_dir(entry) THEN Failed(info)
    ELSE resolve_as_dir_main_file(
             rs,
             IF entry.pkg_info.found
             THEN MainFieldPlugin_apply(rs, entry.pkg_info,
                                        with_target(with_path(info, dir), ""), running)
             ELSE Resolving(with_target(with_path(info, dir), "")),
             running)

resolve_as_dir(rs, info, running) ==
    resolve_as_dir_entry(rs, info, get_path(info),
                         load_entry(rs, get_path(info), running), running)

\* The part of resolve_as_modules that looks into original_dir/node_modules,
\* from its last step to its first; each operator is one step of the code
\* and hands its state to the step after it.
module_root_path(info) == join(info.path, MODULE_DIR)

module_path(info) ==
    join(module_root_path(info), get_module_name_from_request(info.request.target))

module_info(info) == Info_from(module_root_path(info), info.request)

modules_last(state) ==
    IF state.tag = "Failed" THEN Resolving(state.info) ELSE state

modules_as_dir(rs, state, running) ==
    modules_last(IF is_resolving(state) THEN resolve_as_dir(rs, state.info, running)
                 ELSE state)

modules_as_file(rs, state, running) ==
    modules_as_dir(rs,
                   IF is_resolving(state) THEN resolve_as_file(rs, state.info, running)
                   ELSE state,
                   running)

modules_alias_field(rs, pkg_info, state, running) ==
    modules_as_file(rs,
                    IF is_resolving(state) /\ pkg_info.found
                    THEN AliasFieldPlugin_apply(rs, pkg_info, state.info, running)
                    ELSE state,
                    running)

modules_main_field(rs, pkg_info, state, running) ==
    modules_alias_field(
        rs, pkg_info,
        IF is_resolving(state) /\ pkg_info.found
        THEN MainFieldPlugin_apply(
                 rs, pkg_info,
                 with_target(with_path(state.info,
                                       join(state.info.path, state.info.request.target)),
                             "."),
                 running)
        ELSE state,
        running)

modules_imports_field(rs, pkg_info, state, running) ==
    modules_main_field(rs, pkg_info,
                       IF is_resolving(state) /\ pkg_info.found
                       THEN ImportsFieldPlugin_apply(rs, pkg_info, state.info, running)
                       ELSE state,
                       running)

\* The exports step of resolve_as_modules that consults the exports field
\* of every manifest it finds.
modules_exports_field_always(rs, info, pkg_info, resolve_self, running) ==
    modules_imports_field(
        rs, pkg_info,
        IF ~pkg_info.found THEN Resolving(module_info(info))
        ELSE ExportsFieldPlugin_apply(rs, pkg_info, module_info(info), running),
        running)

modules_exports_field(rs, info, pkg_info, resolve_self, running) ==
    modules_imports_field(
        rs, pkg_info,
        IF ~pkg_info.found THEN Resolving(module_info(info))
        ELSE IF ~path_eq(pkg_info.dir_path, info.path) \/ resolve_self
        THEN ExportsFieldPlugin_apply(rs, pkg_info, module_info(info), running)
        ELSE Resolving(module_info(info)),
        running)

\* The file-only step that goes on with the info it tried under node_modules.
modules_file_only_keeps_module_info(info, state) == state

modules_file_only(info, state) ==
    IF is_finished(state) THEN state ELSE Resolving(info)

modules_entry(rs, info, entry, resolve_self, running) ==
    IF entry.tag # "Ok" THEN no_entry(entry, module_path(info), info)
    ELSE IF ~is_dir(entry) /\ ~resolve_self
    THEN modules_file_only(info, resolve_as_file(rs, module_info(info), running))
    ELSE modules_exports_field(rs, info, entry.pkg_info, resolve_self, running)

modules_loaded(rs, info, entry, running) ==
    modules_entry(rs, info, entry,
                  entry.pkg_info.found
                  /\ is_resolve_self(entry.pkg_info,
                                     get_module_name_from_request(info.request.target)),
                  running)

modules_at(rs, info, running) ==
    IF get_module_name_from_request(info.request.target) = SlicePanic
    THEN Abort("char boundary", info)
    ELSE modules_loaded(rs, info, load_entry(rs, module_path(info), running), running)

\* resolve_as_modules, from its last step to its first.
resolve_as_modules_last(stats) ==
    IF is_resolving(stats) THEN Failed(stats.info) ELSE stats

resolve_as_modules_ascend(rs, original_dir, state, running) ==
    resolve_as_modules_last(
        IF ~is_resolving(state) THEN state
        ELSE IF parent(original_dir) # NoParent
        THEN _resolve(rs, with_path(state.info, parent(original_dir)), running)
        ELSE Resolving(state.info))

resolve_as_modules_root(rs, info, root_entry, running) ==
    IF root_entry.tag # "Ok" THEN no_entry(root_entry, module_root_path(info), info)
    ELSE resolve_as_modules_ascend(
             rs, info.path,
             IF is_dir(root_entry) THEN modules_at(rs, info, running) ELSE Resolving(info),
             running)

resolve_as_modules(rs, info, running) ==
    resolve_as_modules_root(rs, info, load_entry(rs, module_root_path(info), running),
                            running)

raise_resolve_failed_message(info) == Err("NotFound", info.request.target, info.path)

\* The stages of _resolve, run under the calls in running, from the last to
\* the first; each operator is one and_then of the code.
pipeline_as_dir(rs, state, running) ==
    IF is_resolving(state) THEN resolve_as_dir(rs, state.info, running) ELSE state

pipeline_by_kind(rs, state, running) ==
    IF ~is_resolving(state) THEN state
    ELSE IF state.info.request.kind \in {"AbsolutePosix", "AbsoluteWin", "Relative"}
    THEN pipeline_as_dir(rs, resolve_as_file(rs, state.info, running), running)
    ELSE resolve_as_modules(rs, state.info, running)

pipeline_alias_field(rs, pkg_info, state, running) ==
    pipeline_by_kind(rs,
                     IF is_resolving(state)
                     THEN AliasFieldPlugin_apply(rs, pkg_info, state.info, running)
                     ELSE state,
                     running)

pipeline_pkg_file(rs, at, request, wrap, running) ==
    IF wrap.tag # "Ok" THEN no_pkg_file(wrap, request, at)
    ELSE pipeline_alias_field(rs, wrap.pkg_info,
                              ImportsFieldPlugin_apply(rs, wrap.pkg_info, at, running), running)

\* The path whose entry gives the request's manifest.
pkg_file_path(at) ==
    IF at.request.kind = "Normal"
    THEN join(join(at.path, MODULE_DIR), at.request.target)
    ELSE get_path(at)

pipeline_load_pkg_file(rs, state, running) ==
    IF ~is_resolving(state) THEN state
    ELSE pipeline_pkg_file(rs, state.info, pkg_file_path(state.info),
                           load_pkg_file(rs, pkg_file_path(state.info), running), running)

pipeline_prefer_relative(rs, state, running) ==
    pipeline_load_pkg_file(rs,
                           IF is_resolving(state)
                           THEN PreferRelativePlugin_apply(rs, state.info, running)
                           ELSE state,
                           running)

pipeline(rs, info, running) ==
    pipeline_prefer_relative(rs, AliasPlugin_apply(rs, info, running), running)

\* The final match of _resolve: a Failed gets this level's message.
_resolve_final(resolve_err_msg, stats) ==
    CASE stats.tag = "Success" -> stats
      [] stats.tag = "Error"   -> stats
      [] stats.tag = "Failed"  -> Error(resolve_err_msg, stats.info)
      [] stats.tag \in {"Pending", "Abort"} -> stats
      [] OTHER                 -> Panic(stats.info)

\* _resolve has no guard.  A call with the info of a call that has not
\* returned does what that call did and re-enters in its turn: the
\* recursion has no end, the stack overflows and the process is aborted.
_resolve(rs, info, running) ==
    IF \E k \in DOMAIN running : running[k] = info
    THEN Abort("stack overflow", info)
    ELSE _resolve_final(raise_resolve_failed_message(info),
                        pipeline(rs, info, Append(running, info)))

\* normalize_result and the Result the caller gets.
normalize_result(out) ==
    LET none == [tag |-> "", res |-> "", path |-> "", query |-> "", fragment |-> "",
                 target |-> "", err |-> NoErr, depth |-> 0]
    IN CASE out.tag = "Success" /\ out.res = "Ignored" ->
                [none EXCEPT !.tag = "Ok", !.res = "Ignored"]
         [] out.tag = "Success" /\ out.res = "Info" ->
                [none EXCEPT !.tag = "Ok", !.res = "Info",
                             !.path = normalize(out.info.path),
                             !.query = out.info.request.query,
                             !.fragment = out.info.request.fragment,
                             !.target = out.info.request.target]
         [] out.tag = "Error" -> [none EXCEPT !.tag = "Err", !.err = out.err]
         [] out.tag = "Pending" ->
                [none EXCEPT !.tag = "Pending", !.res = out.res,
                             !.path = out.info.path, !.depth = out.depth]
         [] out.tag = "Abort" -> [none EXCEPT !.tag = "Abort", !.res = out.res]
         [] OTHER -> [none EXCEPT !.tag = "Panic"]

\* The typed-config layer.  options.tsconfig is given as what the manifest
\* at that location holds: its baseUrl and its paths table, an ordered list
\* of patterns with at most one '*', each with its replacements.
NoMatch == "<no match>"

\* The text the '*' of pattern stands for in target; NoMatch when the
\* pattern does not match.
ts_star(pattern, target) ==
    LET stars == IndicesOf(pattern, "*", 1)
    IN IF stars = <<>> THEN (IF target = pattern THEN "" ELSE NoMatch)
       ELSE LET prefix == SubSeq(pattern, 1, stars[1] - 1)
                suffix == SubSeq(pattern, stars[1] + 1, Len(pattern))
            IN IF /\ Len(target) >= Len(prefix) + Len(suffix)
                  /\ starts_with(target, prefix)
                  /\ ends_with(target, suffix)
               THEN SubSeq(target, Len(prefix) + 1, Len(target) - Len(suffix))
               ELSE NoMatch

ts_substitute(value, star) ==
    LET stars == IndicesOf(value, "*", 1)
    IN IF stars = <<>> THEN value
       ELSE SubSeq(value, 1, stars[1] - 1) \o star
                \o SubSeq(value, stars[1] + 1, Len(value))

\* The replacements of every pattern that matches the target, in order,
\* each joined to baseUrl.
RECURSIVE ts_candidates(_, _, _)
ts_candidates(base_url, paths, target) ==
    IF paths = <<>> THEN <<>>
    ELSE LET star == ts_star(Head(paths).key, target)
             here == IF star = NoMatch THEN <<>>
                     ELSE [i \in DOMAIN Head(paths).values |->
                              join(base_url, ts_substitute(Head(paths).values[i], star))]
         IN here \o ts_candidates(base_url, Tail(paths), target)

\* Each replacement is tried through _resolve; the first that resolves
\* wins, and when none does the request itself goes through _resolve.
RECURSIVE tsconfig_try(_, _, _, _)

tsconfig_tried(rs, info, candidates, state, running) ==
    IF state.tag \in {"Success", "Pending", "Panic", "Abort"} THEN state
    ELSE tsconfig_try(rs, info, Tail(candidates), running)

tsconfig_try(rs, info, candidates, running) ==
    IF candidates = <<>> THEN _resolve(rs, info, running)
    ELSE tsconfig_tried(rs, info, candidates,
                        _resolve(rs, with_target(info, Head(candidates)), running),
                        running)

_resolve_with_tsconfig(rs, info, tsconfig, running) ==
    tsconfig_try(rs, info,
                 ts_candidates(tsconfig.base_url, tsconfig.paths, info.request.target),
                 running)

\* Resolver::resolve: what the caller gets.
resolve_result(rs, info) ==
    IF rs.options.tsconfig.set
    THEN _resolve_with_tsconfig(rs, info, rs.options.tsconfig, <<>>)
    ELSE _resolve(rs, info, <<>>)

resolve(rs, path, request) ==
    normalize_result(resolve_result(rs, Info_from(path, parse(request))))

(***************************************************************************)
(* The state machine.                                                      *)
(***************************************************************************)
Callers == {1, 2}

\* A Resolver: its options, the manifest cache it holds ("own", "external"
\* or, for Resolver::default(), "none"), how it was constructed and its
\* place among the resolvers.
NoResolver == [options |-> <<>>, built |-> FALSE, unsafe_cache |-> "none",
               ctor |-> "", nth |-> 0]
NoCall     == [path |-> "", request |-> ""]
NoEntry    == [key |-> "", path |-> "", depth |-> 0,
               entry |-> [tag |-> "", kind |-> "", pkg_info |-> NoPkg, err |-> NoErr]]
NoResult   == [tag |-> "", res |-> "", path |-> "", query |-> "", fragment |-> "",
               target |-> "", err |-> NoErr, depth |-> 0]
Unset      == "<unset>"
NoState    == [tag |-> "", res |-> "", info |-> NoInfo, err |-> NoErr, depth |-> 0]
NoUnit     == [op |-> "", info |-> NoInfo, pkg_info |-> NoPkg, state |-> NoState]

\* The Resolver caller t makes its call on.
ResolverOf(t) == IF on[t] = 0 THEN NoResolver ELSE resolvers[on[t]]

\* The Resolver the resolution functions are called on when they are run on
\* their own: the first one constructed.
resolver == IF resolvers = <<>> THEN NoResolver ELSE resolvers[1]

\* The manifest cache resolver r reads.
pkg_info_cache(r) ==
    CASE r.unsafe_cache = "external" -> unsafe_cache.external
      [] r.unsafe_cache = "own"      -> unsafe_cache.own[r.nth]
      [] OTHER                       -> <<>>

\* The caches once resolver r has inserted a manifest into the one it
\* holds: the entry of the manifest's directory is overwritten.
pkg_info_insert(r, pkg_info) ==
    CASE r.unsafe_cache = "external"
             -> [unsafe_cache EXCEPT !.external = (pkg_info.dir_path :> pkg_info) @@ @]
      [] r.unsafe_cache = "own"
             -> [unsafe_cache EXCEPT !.own[r.nth] = (pkg_info.dir_path :> pkg_info) @@ @]
      [] OTHER -> unsafe_cache

\* Where caller t's resolve call stands, given what it has observed.
Cur(t) == resolve([options |-> ResolverOf(t).options, view |-> view[t]],
                  call[t].path, call[t].request)

\* A read that takes a manifest already in the manifest cache for absent.
read_entry_forgets_manifest(r, path) ==
    LET cached(e) ==
            IF e.tag = "Ok" /\ e.pkg_info.found
               /\ e.pkg_info.dir_path \in DOMAIN pkg_info_cache(r)
            THEN [e EXCEPT !.pkg_info = NoPkg]
            ELSE e
    IN cached(probe(fs, path))

\* The filesystem's answer to resolver r, with a manifest already in its
\* manifest cache taken from there.
read_entry(r, path) ==
    LET cached(e) ==
            IF e.tag = "Ok" /\ e.pkg_info.found
               /\ e.pkg_info.dir_path \in DOMAIN pkg_info_cache(r)
            THEN [e EXCEPT !.pkg_info = pkg_info_cache(r)[e.pkg_info.dir_path]]
            ELSE e
    IN cached(probe(fs, path))

\* The nearest manifest at or above the path, with a manifest already in
\* the resolver's manifest cache taken from there.
read_pkg_file(r, path) ==
    LET cached(e) ==
            IF e.tag = "Ok" /\ e.pkg_info.found
               /\ e.pkg_info.dir_path \in DOMAIN pkg_info_cache(r)
            THEN [e EXCEPT !.pkg_info = pkg_info_cache(r)[e.pkg_info.dir_path]]
            ELSE e
    IN cached(nearest_manifest(fs, normalize(path)))

\* Resolver::new(options): the resolver holds the external cache when the
\* options give one and a new, empty cache of its own otherwise; its entry
\* cache is empty.  The resolvers constructed before it, and the calls that
\* run on them, go on.
New ==
    /\ builds_left > 0
    /\ builds_left' = builds_left - 1
    /\ resolvers' = Append(resolvers,
                           [options |-> Resolver_new(config), built |-> TRUE,
                            unsafe_cache |-> IF config.unsafe_cache = "Some"
                                             THEN "external" ELSE "own",
                            ctor |-> "new", nth |-> Len(resolvers) + 1])
    /\ entries' = Append(entries, <<>>)
    /\ unsafe_cache' = [unsafe_cache EXCEPT !.own = Append(@, <<>>)]
    /\ UNCHANGED <<fs, config, inputs, on, calls_left, pc, call,
                   view, probes, pending, result, name_in, name_out, returned,
                   unit_in, unit_out>>

\* Resolver::default(): the derived constructor; the options are not
\* normalised and the resolver holds no manifest cache.
Default ==
    /\ builds_left > 0
    /\ builds_left' = builds_left - 1
    /\ resolvers' = Append(resolvers,
                           [options |-> ResolverOptions_default, built |-> TRUE,
                            unsafe_cache |-> "none", ctor |-> "default",
                            nth |-> Len(resolvers) + 1])
    /\ entries' = Append(entries, <<>>)
    /\ unsafe_cache' = [unsafe_cache EXCEPT !.own = Append(@, <<>>)]
    /\ UNCHANGED <<fs, config, inputs, on, calls_left, pc, call,
                   view, probes, pending, result, name_in, name_out, returned,
                   unit_in, unit_out>>

\* Caller t enters resolve(path, request) on the n-th resolver.
Resolve(t, input, n) ==
    /\ pc[t] \in {"idle", "done"}
    /\ calls_left > 0
    /\ calls_left' = calls_left - 1
    /\ on' = [on EXCEPT ![t] = n]
    /\ call' = [call EXCEPT ![t] = input]
    /\ view' = [view EXCEPT ![t] = <<>>]
    /\ probes' = [probes EXCEPT ![t] = <<>>]
    /\ result' = [result EXCEPT ![t] = NoResult]
    /\ returned' = IF on[t] = n THEN returned ELSE [returned EXCEPT ![t] = <<>>]
    /\ pc' = [pc EXCEPT ![t] = "running"]
    /\ UNCHANGED <<fs, config, inputs, resolvers, entries, unsafe_cache,
                   builds_left, pending, name_in, name_out, unit_in, unit_out>>

\* A cache hit that hands out the entry without its kind, as if nothing
\* were at the path.
LoadEntryCached_loses_kind(t) ==
    /\ pc[t] = "running"
    /\ \E cur \in {Cur(t)} :
          /\ cur.tag = "Pending" /\ cur.res = ""
          /\ key_of(cur.path) \in DOMAIN entries[on[t]]
          /\ view' = [view EXCEPT ![t] =
                         (key_of(cur.path) :>
                              [entries[on[t]][key_of(cur.path)] EXCEPT !.kind = "Missing"])
                         @@ view[t]]
          /\ probes' = [probes EXCEPT ![t] = Append(probes[t], cur.path)]
    /\ UNCHANGED <<fs, config, inputs, resolvers, on, entries, unsafe_cache,
                   calls_left, builds_left, pc, call, pending, result, name_in,
                   name_out, returned, unit_in, unit_out>>

\* load_entry finds the path in the resolver's entry cache.
LoadEntryCached(t) ==
    /\ pc[t] = "running"
    /\ \E cur \in {Cur(t)} :
          /\ cur.tag = "Pending" /\ cur.res = ""
          /\ key_of(cur.path) \in DOMAIN entries[on[t]]
          /\ view' = [view EXCEPT ![t] =
                         (key_of(cur.path) :> entries[on[t]][key_of(cur.path)])
                         @@ view[t]]
          /\ probes' = [probes EXCEPT ![t] = Append(probes[t], cur.path)]
    /\ UNCHANGED <<fs, config, inputs, resolvers, on, entries, unsafe_cache,
                   calls_left, builds_left, pc, call, pending, result, name_in,
                   name_out, returned, unit_in, unit_out>>

\* load_entry misses the cache and asks the filesystem.
LoadEntryProbe(t) ==
    /\ pc[t] = "running"
    /\ \E cur \in {Cur(t)} :
          /\ cur.tag = "Pending" /\ cur.res = ""
          /\ key_of(cur.path) \notin DOMAIN entries[on[t]]
          /\ pending' = [pending EXCEPT ![t] =
                            [key |-> key_of(cur.path), path |-> cur.path,
                             depth |-> cur.depth,
                             entry |-> read_entry(ResolverOf(t), cur.path)]]
          /\ probes' = [probes EXCEPT ![t] = Append(probes[t], cur.path)]
    /\ pc' = [pc EXCEPT ![t] = "loaded"]
    /\ UNCHANGED <<fs, config, inputs, resolvers, on, entries, unsafe_cache,
                   calls_left, builds_left, call, view, result, name_in,
                   name_out, returned, unit_in, unit_out>>

\* load_entry inserts what it read into the caches (the last writer wins)
\* and returns it; an error is returned and not cached.
LoadEntryInsert(t) ==
    /\ pc[t] = "loaded"
    /\ LET got == pending[t]
       IN /\ entries' = IF got.entry.tag = "Ok"
                        THEN [entries EXCEPT ![on[t]] = (got.key :> got.entry) @@ @]
                        ELSE entries
          /\ unsafe_cache' = IF got.entry.tag = "Ok" /\ got.entry.pkg_info.found
                             THEN pkg_info_insert(ResolverOf(t), got.entry.pkg_info)
                             ELSE unsafe_cache
          /\ view' = [view EXCEPT ![t] = (got.key :> got.entry) @@ view[t]]
    /\ pending' = [pending EXCEPT ![t] = NoEntry]
    /\ pc' = [pc EXCEPT ![t] = "running"]
    /\ UNCHANGED <<fs, config, inputs, resolvers, on, calls_left, builds_left,
                   call, probes, result, name_in, name_out, returned, unit_in,
                   unit_out>>

\* load_pkg_file looks for the nearest manifest of the request's path: in
\* the manifest cache the resolver holds, or else on the filesystem.
LoadPkgFileRead(t) ==
    /\ pc[t] = "running"
    /\ \E cur \in {Cur(t)} :
          /\ cur.tag = "Pending" /\ cur.res = "load_pkg_file"
          /\ pending' = [pending EXCEPT ![t] =
                            [key |-> pkg_file_key(cur.path), path |-> cur.path,
                             depth |-> cur.depth,
                             entry |-> read_pkg_file(ResolverOf(t), cur.path)]]
    /\ pc' = [pc EXCEPT ![t] = "read"]
    /\ UNCHANGED <<fs, config, inputs, resolvers, on, entries, unsafe_cache,
                   calls_left, builds_left, call, view, probes, result, name_in,
                   name_out, returned, unit_in, unit_out>>

\* load_pkg_file puts the manifest it got into the manifest cache,
\* whatever another call has put there in the meantime (the last writer
\* wins), and returns it.
LoadPkgFileInsert(t) ==
    /\ pc[t] = "read"
    /\ LET got == pending[t]
       IN /\ unsafe_cache' = IF got.entry.tag = "Ok" /\ got.entry.pkg_info.found
                             THEN pkg_info_insert(ResolverOf(t), got.entry.pkg_info)
                             ELSE unsafe_cache
          /\ view' = [view EXCEPT ![t] = (got.key :> got.entry) @@ view[t]]
    /\ pending' = [pending EXCEPT ![t] = NoEntry]
    /\ pc' = [pc EXCEPT ![t] = "running"]
    /\ UNCHANGED <<fs, config, inputs, resolvers, on, entries, calls_left,
                   builds_left, call, probes, result, name_in, name_out,
                   returned, unit_in, unit_out>>

\* resolve returns to caller t.
Return(t) ==
    /\ pc[t] = "running"
    /\ \E cur \in {Cur(t)} :
          /\ cur.tag # "Pending"
          /\ result' = [result EXCEPT ![t] = cur]
          /\ returned' = [returned EXCEPT ![t] =
                              IF call[t] \in DOMAIN @
                              THEN [@ EXCEPT ![call[t]].times = @ + 1]
                              ELSE (call[t] :> [first |-> cur, times |-> 1]) @@ @]
    /\ pc' = [pc EXCEPT ![t] = "done"]
    /\ UNCHANGED <<fs, config, inputs, resolvers, on, entries, unsafe_cache,
                   calls_left, builds_left, call, view, probes, pending, name_in,
                   name_out, unit_in, unit_out>>

\* get_module_name_from_request(target).
GetModuleName ==
    /\ name_out = Unset
    /\ name_out' = get_module_name_from_request(name_in)
    /\ UNCHANGED <<fs, config, inputs, resolvers, on, entries, unsafe_cache,
                   calls_left, builds_left, pc, call, view, probes, pending,
                   result, name_in, returned, unit_in, unit_out>>

Next ==
    \/ New
    \/ Default
    \/ \E t \in Callers, input \in inputs, n \in DOMAIN resolvers :
          Resolve(t, input, n)
    \/ \E t \in Callers : LoadEntryCached(t)
    \/ \E t \in Callers : LoadEntryProbe(t)
    \/ \E t \in Callers : LoadEntryInsert(t)
    \/ \E t \in Callers : LoadPkgFileRead(t)
    \/ \E t \in Callers : LoadPkgFileInsert(t)
    \/ \E t \in Callers : Return(t)

(***************************************************************************)
(* The trees, options and calls that are explored.                         *)
(***************************************************************************)
Options(extensions, enforce_extension, main_fields, alias, prefer_relative) ==
    [extensions |-> extensions, enforce_extension |-> enforce_extension,
     main_fields |-> main_fields, main_files |-> <<"index">>,
     alias |-> alias, prefer_relative |-> prefer_relative,
     tsconfig |-> NoTsconfig, unsafe_cache |-> "None"]

Input(path, request) == [path |-> path, request |-> request]

\* A scenario: one resolver is constructed, unless it says otherwise.
Scenario(tree, options, calls, n) ==
    [tree |-> tree, options |-> options, inputs |-> calls, calls |-> n, builds |-> 1]

NoManifests == <<>>

Pkg(name, raw) == Manifest(name, raw, <<>>, <<>>, <<>>)

\* Relative requests: the files beside the referrer, the extension lists and
\* the enforcement modes.
SrcFiles == {"/p/src/foo", "/p/src/foo.js", "/p/src/foo.ts", "/p/src/foojs"}

ExtensionLists ==
    {<<".js", ".ts">>, <<".ts", ".js">>, <<"..js", "..ts">>, <<"js", "">>, <<".">>, <<>>}

RelativeInputs ==
    {Input("/p/src", "./foo"), Input("/p/src", "./foo.js?x=1#sec"),
     Input("/p", "/p/src/foo#sec")}

RelativeScenarios ==
    {Scenario(Tree(files, {"/p/src"}, NoManifests, {}, {}),
              Options(exts, enforce, <<"main">>, <<>>, FALSE), RelativeInputs, 1) :
        files \in SUBSET SrcFiles, exts \in ExtensionLists,
        enforce \in {"Auto", "Enabled", "Disabled"}}

\* Bare requests: what node_modules holds for the module foo at one level.
Levels == {"none", "empty", "dir", "index", "file", "main", "missing", "loop", "dot"}

LevelFiles(dir, level) ==
    LET nm == join(dir, MODULE_DIR)
    IN CASE level \in {"none", "empty", "dir"} -> {}
         [] level = "file" -> {join(nm, "foo.js")}
         [] level = "main" -> {join(nm, "foo/lib.js"), join(nm, "foo/index.js")}
         [] OTHER -> {join(nm, "foo/index.js")}

LevelDirs(dir, level) ==
    LET nm == join(dir, MODULE_DIR)
    IN CASE level = "none" -> {dir}
         [] level \in {"empty", "file"} -> {nm}
         [] OTHER -> {join(nm, "foo")}

LevelManifests(dir, level) ==
    LET at == join(join(dir, MODULE_DIR), "foo")
    IN CASE level = "main"    -> (at :> Pkg("foo", [main |-> "lib"]))
         [] level = "missing" -> (at :> Pkg("foo", [main |-> "./missing"]))
         [] level = "loop"    -> (at :> Pkg("foo", [main |-> "./."]))
         [] level = "dot"     -> (at :> Pkg("foo", [main |-> "."]))
         [] OTHER -> <<>>

ModuleTree(l1, l2, l3) ==
    Tree(LevelFiles("/p/src", l1) \cup LevelFiles("/p", l2) \cup LevelFiles("/", l3),
         LevelDirs("/p/src", l1) \cup LevelDirs("/p", l2) \cup LevelDirs("/", l3),
         LevelManifests("/p/src", l1) @@ LevelManifests("/p", l2)
             @@ LevelManifests("/", l3),
         {}, {})

ModuleInputs == {Input("/p/src", "foo"), Input("/p/src", "foo/lib?x=1")}

ModuleScenarios ==
    {Scenario(ModuleTree(l1, l2, l3), Options(<<"..js">>, "Auto", <<"main">>, <<>>, FALSE),
              ModuleInputs, 1) :
        l1 \in Levels, l2 \in Levels, l3 \in {"none", "index"}}

\* A resolver that is used twice.
WarmScenarios ==
    {Scenario(ModuleTree(l1, "index", "none"),
              Options(<<"..js">>, "Auto", <<"main">>, <<>>, FALSE),
              {Input("/p/src", "foo"), Input("/p", "foo")}, 2) :
        l1 \in {"none", "dir", "main"}}

\* The alias table and prefer_relative.
AliasTables ==
    {<<[key |-> "foo", value |-> "bar"]>>,
     <<[key |-> "assert", value |-> IgnoreAlias]>>,
     <<[key |-> "foo", value |-> FalseAlias]>>,
     <<[key |-> "foo", value |-> "foo/x"]>>}

\* WW stands for a module name of two three-byte characters.
PluginScenarios ==
    {Scenario(Tree({"/p/node_modules/bar/index.js", "/p/src/foo.js"}, {}, NoManifests,
                   {}, {}),
              Options(<<"..js">>, "Auto", <<"main">>, alias, prefer_relative),
              {Input("/p/src", "foo"), Input("/p", "assert"), Input("/p/src", "foo.js"),
               Input("/p/src", "WW/a")},
              1) :
        alias \in AliasTables, prefer_relative \in BOOLEAN}

\* A typed configuration that maps @app/* to two places under /p.
AppPaths ==
    <<[key |-> "@app/*", values |-> <<"src/missing/*", "src/lib/*">>],
      [key |-> "exact", values |-> <<"src/lib/util.js">>]>>

TsconfigScenarios ==
    {Scenario(Tree(files \cup {"/p/node_modules/foo/index.js"}, {"/p/src"},
                   NoManifests, {}, {}),
              [Options(<<"..js">>, "Auto", <<"main">>, <<>>, FALSE)
                   EXCEPT !.tsconfig = [set |-> TRUE, base_url |-> "/p",
                                        paths |-> paths]],
              {Input("/p/src", "@app/util"), Input("/p/src", "exact"),
               Input("/p/src", "foo")},
              1) :
        files \in SUBSET {"/p/src/lib/util.js", "/p/src/missing/util.js"},
        paths \in {AppPaths, <<>>}}

\* Two resolvers that are given the caller's manifest cache or not.
SharedCacheScenarios ==
    {[Scenario(ModuleTree(l1, "main", "none"),
               [Options(<<"..js">>, "Auto", <<"main">>, <<>>, FALSE)
                    EXCEPT !.unsafe_cache = external],
               {Input("/p/src", "foo")}, 2) EXCEPT !.builds = 2] :
        l1 \in {"none", "main"}, external \in {"None", "Some"}}

\* A bare request from a directory eight levels down, with the module at
\* the root or nowhere.
DeepDir == "/a/b/c/d/e/f/g/h"

DeepScenarios ==
    {Scenario(Tree(files, {DeepDir}, NoManifests, {}, {}),
              Options(<<"..js">>, "Auto", <<"main">>, <<>>, FALSE),
              {Input(DeepDir, "foo")}, 1) :
        files \in {{}, {"/node_modules/foo/index.js"}}}

Scenarios ==
    RelativeScenarios \cup ModuleScenarios \cup WarmScenarios \cup PluginScenarios
        \cup TsconfigScenarios \cup SharedCacheScenarios \cup DeepScenarios

Start(sc, active) ==
    /\ fs = sc.tree
    /\ config = sc.options
    /\ inputs = sc.inputs
    /\ calls_left = sc.calls
    /\ builds_left = sc.builds
    /\ resolvers = <<>>
    /\ on = [t \in Callers |-> 0]
    /\ entries = <<>>
    /\ unsafe_cache = [own |-> <<>>, external |-> <<>>]
    /\ pc = [t \in Callers |-> IF t \in active THEN "idle" ELSE "off"]
    /\ call = [t \in Callers |-> NoCall]
    /\ view = [t \in Callers |-> <<>>]
    /\ probes = [t \in Callers |-> <<>>]
    /\ pending = [t \in Callers |-> NoEntry]
    /\ result = [t \in Callers |-> NoResult]
    /\ name_in = ""
    /\ name_out = ""
    /\ returned = [t \in Callers |-> <<>>]
    /\ unit_in = NoUnit
    /\ unit_out = NoState

Init == \E sc \in Scenarios : Start(sc, {1})

Spec == Init /\ [][Next]_vars

\* Two callers, each making one of two calls at the same time as the
\* other: on one resolver, or on two resolvers that are given the caller's
\* manifest cache.  The package foo of /p/node_modules has a manifest, which
\* both calls come to when /p/src has no node_modules.
ConcScenarios ==
    {[Scenario(ModuleTree(l1, "main", "none"),
               [Options(<<"..js">>, "Auto", <<"main">>, <<>>, FALSE)
                    EXCEPT !.unsafe_cache = IF builds = 2 THEN "Some" ELSE "None"],
               {Input("/p/src", "foo"), Input("/p", "foo")}, 2)
          EXCEPT !.builds = builds] :
        l1 \in {"none", "main"}, builds \in {1, 2}}

ConcInit == \E sc \in ConcScenarios : Start(sc, Callers)

\* The resolvers are constructed by Resolver::new.
ConcNext ==
    \/ New
    \/ \E t \in Callers, input \in inputs, n \in DOMAIN resolvers :
          Resolve(t, input, n)
    \/ \E t \in Callers : LoadEntryCached(t)
    \/ \E t \in Callers : LoadEntryProbe(t)
    \/ \E t \in Callers : LoadEntryInsert(t)
    \/ \E t \in Callers : LoadPkgFileRead(t)
    \/ \E t \in Callers : LoadPkgFileInsert(t)
    \/ \E t \in Callers : Return(t)

SpecConc == ConcInit /\ [][ConcNext]_vars

(***************************************************************************)
(* The resolution functions called on their own: resolve_as_file,          *)
(* resolve_as_dir, resolve_as_modules, MainFieldPlugin::apply and _resolve *)
(* are run on a new resolver, one load_entry at a time.                    *)
(***************************************************************************)
Unit(op, info, pkg_info) ==
    [op |-> op, info |-> info, pkg_info |-> pkg_info, state |-> NoState]

\* state.then(op) for an op that is seen to have run.
ThenUnit(state) == [op |-> "then", info |-> NoInfo, pkg_info |-> NoPkg, state |-> state]

then_op(info) == Success(with_target(info, "<op>"))

unit_call(rs, u) ==
    CASE u.op = "resolve_as_file"    -> resolve_as_file(rs, u.info, <<>>)
      [] u.op = "resolve_as_dir"     -> resolve_as_dir(rs, u.info, <<>>)
      [] u.op = "resolve_as_modules" -> resolve_as_modules(rs, u.info, <<>>)
      [] u.op = "MainFieldPlugin"    -> MainFieldPlugin_apply(rs, u.pkg_info, u.info, <<>>)
      [] u.op = "_resolve"           -> _resolve(rs, u.info, <<>>)
      [] u.op = "then"               -> and_then(u.state, then_op(u.state.info))
      [] OTHER                       -> NoState

\* Where the call stands, given the entries it has loaded so far.
UnitCur == unit_call([options |-> resolver.options, view |-> view[1]], unit_in)

\* load_entry on an empty cache: the entry is read from the filesystem.
UnitLoadEntry ==
    /\ resolver.built
    /\ unit_in # NoUnit
    /\ unit_out = NoState
    /\ \E cur \in {UnitCur} :
          /\ cur.tag = "Pending" /\ cur.res = ""
          /\ view' = [view EXCEPT ![1] =
                         (key_of(cur.info.path) :> probe(fs, cur.info.path)) @@ view[1]]
          /\ probes' = [probes EXCEPT ![1] = Append(probes[1], cur.info.path)]
    /\ UNCHANGED <<fs, config, inputs, resolvers, on, entries, unsafe_cache,
                   calls_left, builds_left, pc, call, pending, result, name_in,
                   name_out, returned, unit_in, unit_out>>

\* load_pkg_file on an empty cache: the nearest manifest is read.
UnitLoadPkgFile ==
    /\ resolver.built
    /\ unit_in # NoUnit
    /\ unit_out = NoState
    /\ \E cur \in {UnitCur} :
          /\ cur.tag = "Pending" /\ cur.res = "load_pkg_file"
          /\ view' = [view EXCEPT ![1] =
                         (pkg_file_key(cur.info.path)
                              :> nearest_manifest(fs, normalize(cur.info.path)))
                         @@ view[1]]
    /\ UNCHANGED <<fs, config, inputs, resolvers, on, entries, unsafe_cache,
                   calls_left, builds_left, pc, call, probes, pending, result,
                   name_in, name_out, returned, unit_in, unit_out>>

\* The function returns its State.
UnitReturn ==
    /\ resolver.built
    /\ unit_in # NoUnit
    /\ unit_out = NoState
    /\ \E cur \in {UnitCur} :
          /\ cur.tag # "Pending"
          /\ unit_out' = cur
    /\ UNCHANGED <<fs, config, inputs, resolvers, on, entries, unsafe_cache,
                   calls_left, builds_left, pc, call, view, probes, pending,
                   result, name_in, name_out, returned, unit_in>>

UnitNext ==
    \/ New
    \/ UnitLoadEntry
    \/ UnitLoadPkgFile
    \/ UnitReturn

UnitScenario(tree, options, unit) == [tree |-> tree, options |-> options, unit |-> unit]

\* resolve_as_file beside the referrer, under each extension list and each
\* enforcement mode.
FileInfos ==
    {Info_from("/p/src", parse("./foo")), Info_from("/p/src", parse("./foo.js?x=1")),
     Info_from("/p/src/foo", parse(""))}

FileUnits ==
    {UnitScenario(Tree(files, {"/p/src"}, NoManifests, {}, {}),
                  Options(exts, enforce, <<"main">>, <<>>, FALSE),
                  Unit("resolve_as_file", info, NoPkg)) :
        files \in SUBSET SrcFiles, exts \in ExtensionLists,
        enforce \in {"Auto", "Enabled", "Disabled"}, info \in FileInfos}

\* MainFieldPlugin and resolve_as_dir on the package /p/pkg, whose manifest
\* may name a module and a main entry, and on its subdirectory /p/pkg/sub,
\* which has no manifest of its own.  "" stands for a field the manifest
\* does not have.
ModuleValues == {"", "esm", "./missing", ".", "./"}
MainValues   == {"", "lib", "./missing", ".", "../pkg"}

Raw(module, main) ==
    (IF module = "" THEN <<>> ELSE [module |-> module])
    @@ (IF main = "" THEN <<>> ELSE [main |-> main])

PkgFiles == {"/p/pkg/lib.js", "/p/pkg/esm.js", "/p/pkg/index.js"}

PkgTree(files, module, main) ==
    Tree(files \cup {"/p/pkg/sub/index.js"}, {"/p/pkg"},
         "/p/pkg" :> Pkg("pkg", Raw(module, main)), {}, {})

MainFieldOrders == {<<"module", "main">>, <<"main", "module">>, <<"main">>}

PkgUnits(tree) ==
    {Unit("MainFieldPlugin", Info_from("/p/pkg", parse("")),
          nearest_manifest(tree, "/p/pkg").pkg_info),
     Unit("MainFieldPlugin", Info_from("/p/pkg/sub", parse("")),
          nearest_manifest(tree, "/p/pkg/sub").pkg_info),
     Unit("resolve_as_dir", Info_from("/p", parse("./pkg")), NoPkg),
     Unit("resolve_as_dir", Info_from("/p/pkg", parse("./sub")), NoPkg),
     Unit("resolve_as_dir", Info_from("/p/pkg", parse("./lib.js")), NoPkg)}

MainFieldUnits ==
    UNION {{UnitScenario(PkgTree(files, module, main),
                         Options(<<"..js">>, "Auto", order, <<>>, FALSE), unit) :
               unit \in PkgUnits(PkgTree(files, module, main))} :
           files \in SUBSET PkgFiles, module \in ModuleValues, main \in MainValues,
           order \in MainFieldOrders}

\* resolve_as_modules from /p/src for the module foo, with the manifest that
\* encloses node_modules/foo in the module's directory, in /p/src or in /p,
\* named foo or not, with or without an exports map and a main field.
ExportsMaps == {<<>>, "./only" :> "./x.js", "." :> "./lib.js"}

ManifestDirs == {"/p/src/node_modules/foo", "/p/src", "/p"}

ExportsTree(at, name, exports, main, module_is_dir) ==
    Tree({join(at, "lib.js"), join(at, "x.js")}
             \cup (IF module_is_dir THEN {"/p/src/node_modules/foo/index.js"} ELSE {}),
         {"/p/src/node_modules"},
         at :> Manifest(name, Raw("", main), exports, <<>>, <<>>), {}, {})

ExportsUnits ==
    {UnitScenario(ExportsTree(at, name, exports, main, module_is_dir),
                  Options(<<"..js">>, "Auto", <<"main">>, <<>>, FALSE),
                  Unit("resolve_as_modules", Info_from("/p/src", parse(request)), NoPkg)) :
        at \in ManifestDirs, name \in {"foo", "other"}, exports \in ExportsMaps,
        main \in {"", "lib"}, module_is_dir \in BOOLEAN,
        request \in {"foo", "foo/only"}}

\* _resolve from /p/src on a tree where foo is a package of
\* /p/src/node_modules and of /p/node_modules, with probes that fail,
\* manifests that do not parse, an exports map without ".", an alias that
\* loops or prefer_relative.
FailingProbes ==
    {{}, {"/p/src/node_modules"}, {"/p/src/node_modules/foo"},
     {"/p/src/node_modules/foo/esm"}, {"/p/src/node_modules/foo/index.js"},
     {"/p/src/foo"}}

BrokenManifests == {{}, {"/p/src/node_modules/foo"}, {"/p/src"}}

ErrorTree(io_errors, broken, exports, module) ==
    Tree({"/p/src/node_modules/foo/index.js", "/p/src/node_modules/foo/lib.js",
          "/p/node_modules/foo/index.js"},
         {"/p/src"},
         "/p/src/node_modules/foo"
             :> Manifest("foo", Raw(module, "lib"), exports, <<>>, <<>>),
         broken, io_errors)

ErrorUnits ==
    {UnitScenario(ErrorTree(io_errors, broken, exports, module),
                  Options(<<"..js">>, "Auto", <<"module", "main">>, alias,
                          prefer_relative),
                  Unit("_resolve", Info_from("/p/src", parse(request)), NoPkg)) :
        io_errors \in FailingProbes, broken \in BrokenManifests,
        exports \in {<<>>, "./only" :> "./x.js"}, module \in {"", "esm"},
        alias \in {<<>>, <<[key |-> "foo", value |-> "foo/x"]>>},
        prefer_relative \in BOOLEAN, request \in {"foo", "./foo"}}

\* state.then(op) on a state of each kind.
ThenUnits ==
    {UnitScenario(Tree({}, {"/p"}, NoManifests, {}, {}),
                  Options(<<>>, "Auto", <<>>, <<>>, FALSE), ThenUnit(state)) :
        state \in {Resolving(Info_from("/p", parse("./foo"))),
                   Success(Info_from("/p/foo.js", parse(""))),
                   Ignored,
                   Failed(Info_from("/p", parse("foo"))),
                   Error(Err("Io", "", "/p/foo"), Info_from("/p", parse("./foo")))}}

\* resolve_as_modules for the module foo from /p/src and from the root,
\* over what node_modules holds at each level.
WalkUnits ==
    {UnitScenario(ModuleTree(l1, l2, l3),
                  Options(<<"..js">>, "Auto", <<"main">>, <<>>, FALSE),
                  Unit("resolve_as_modules", Info_from(dir, parse(request)), NoPkg)) :
        l1 \in {"none", "empty", "file", "dir", "index"}, l2 \in {"none", "index"},
        l3 \in {"none", "empty", "file", "dir"}, dir \in {"/p/src", "/"},
        request \in {"foo", "foo?x=1"}}

\* _resolve for a request of every kind, with and without an alias that
\* ignores foo.
KindRequests ==
    {"foo", "./foo", "", "#internal", "/p/node_modules/foo", "../node_modules/foo",
     ".", "foo/index.js", "WW/a"}

KindUnits ==
    {UnitScenario(ModuleTree(l1, l2, l3),
                  Options(<<"..js">>, "Auto", <<"main">>, alias, prefer_relative),
                  Unit("_resolve", Info_from(dir, parse(request)), NoPkg)) :
        l1 \in {"none", "dir", "main", "loop"}, l2 \in {"empty", "index", "dot"},
        l3 \in {"none", "file"}, dir \in {"/p/src", "/"},
        alias \in {<<>>, <<[key |-> "foo", value |-> IgnoreAlias]>>},
        prefer_relative \in BOOLEAN, request \in KindRequests}

UnitScenarios ==
    FileUnits \cup MainFieldUnits \cup ExportsUnits \cup ErrorUnits \cup ThenUnits
        \cup WalkUnits \cup KindUnits

UnitStart(sc) ==
    /\ fs = sc.tree
    /\ config = sc.options
    /\ inputs = {}
    /\ calls_left = 0
    /\ builds_left = 1
    /\ resolvers = <<>>
    /\ on = [t \in Callers |-> 0]
    /\ entries = <<>>
    /\ unsafe_cache = [own |-> <<>>, external |-> <<>>]
    /\ pc = [t \in Callers |-> "off"]
    /\ call = [t \in Callers |-> NoCall]
    /\ view = [t \in Callers |-> <<>>]
    /\ probes = [t \in Callers |-> <<>>]
    /\ pending = [t \in Callers |-> NoEntry]
    /\ result = [t \in Callers |-> NoResult]
    /\ name_in = ""
    /\ name_out = ""
    /\ returned = [t \in Callers |-> <<>>]
    /\ unit_in = sc.unit
    /\ unit_out = NoState

UnitInit == \E sc \in UnitScenarios : UnitStart(sc)

SpecUnit == UnitInit /\ [][UnitNext]_vars

\* get_module_name_from_request on every target of at most MaxLen characters
\* and on the targets of the code's test.
MaxLen == 5

NameChars == {"@", "/", "a", TwoByteChar, ThreeByteChar}

NameExamples == {"a", "a/b", "@a", "@a/b", "@a/b/c", "@E/b/c"}

RECURSIVE Strings(_)
Strings(n) ==
    IF n = 0 THEN {""}
    ELSE LET shorter == Strings(n - 1)
         IN shorter \cup {s \o c : s \in shorter, c \in NameChars}

NameInit ==
    /\ fs = Tree({}, {}, NoManifests, {}, {})
    /\ config = Options(<<>>, "Auto", <<>>, <<>>, FALSE)
    /\ inputs = {}
    /\ calls_left = 0
    /\ builds_left = 0
    /\ resolvers = <<>>
    /\ on = [t \in Callers |-> 0]
    /\ entries = <<>>
    /\ unsafe_cache = [own |-> <<>>, external |-> <<>>]
    /\ pc = [t \in Callers |-> "off"]
    /\ call = [t \in Callers |-> NoCall]
    /\ view = [t \in Callers |-> <<>>]
    /\ probes = [t \in Callers |-> <<>>]
    /\ pending = [t \in Callers |-> NoEntry]
    /\ result = [t \in Callers |-> NoResult]
    /\ name_in \in Strings(MaxLen) \cup NameExamples
    /\ name_out = Unset
    /\ returned = [t \in Callers |-> <<>>]
    /\ unit_in = NoUnit
    /\ unit_out = NoState

NameNext == GetModuleName

SpecName == NameInit /\ [][NameNext]_vars

(***************************************************************************)
(* The claims.                                                             *)
(***************************************************************************)
Done(t) == pc[t] = "done"

IsInfo(r) == r.tag = "Ok" /\ r.res = "Info"

IsErr(r, kind) == r.tag = "Err" /\ r.err.kind = kind

\* C1: whenever resolve returns Info{path, ..}, path is absolute and the
\* filesystem probe reports a regular file at path; never a missing path or
\* a directory.
C1_InfoIsFile ==
    \A t \in Callers :
        Done(t) /\ IsInfo(result[t]) =>
            /\ starts_with(result[t].path, "/")
            /\ probe(fs, result[t].path).tag = "Ok"
            /\ probe(fs, result[t].path).kind = "File"

\* A bare request has been resolved to a file found by ascending.
C1_Witness ==
    \E t \in Callers :
        /\ Done(t) /\ IsInfo(result[t])
        /\ call[t] = Input("/p/src", "foo")
        /\ result[t].path = "/p/node_modules/foo/index.js"

\* C2: for the relative request ./foo whose joined path p is not a file, on a
\* resolver built by Resolver::new with every extension configured with its
\* leading dot, resolve returns p followed by the first configured extension,
\* dot included, for which a file exists.
C2_FirstExtensionWins ==
    \A t \in Callers :
        LET p    == normalize(join(call[t].path, "./foo"))
            exts == config.extensions
            hits == {i \in DOMAIN exts : (p \o exts[i]) \in fs.files}
        IN Done(t) /\ call[t].request = "./foo"
           /\ ResolverOf(t).ctor = "new"
           /\ config.enforce_extension # "Enabled"
           /\ (\A i \in DOMAIN exts :
                  Len(exts[i]) > 1 /\ starts_with(exts[i], ".")
                  /\ ~starts_with(exts[i], ".."))
           /\ p \notin fs.files /\ hits # {}
           => /\ IsInfo(result[t])
              /\ result[t].path = p \o exts[CHOOSE i \in hits : \A j \in hits : i <= j]

\* The directories a bare request from /p/src looks into, nearest first.
Ascent == <<"/p/src", "/p", "/">>

ModuleDirOf(d) == join(join(d, MODULE_DIR), "foo")

\* d/node_modules/foo holds index.js and no manifest.
HasIndex(d) ==
    /\ join(ModuleDirOf(d), "index.js") \in fs.files
    /\ ModuleDirOf(d) \notin DOMAIN fs.manifests

\* d/node_modules holds no file and no manifest of the module foo.
Barren(d) ==
    \A f \in fs.files \cup DOMAIN fs.manifests : ~starts_with(f, ModuleDirOf(d))

\* C3: a bare request from d is looked up in d/node_modules and then in each
\* parent of d in turn; the result comes from the nearest ancestor whose
\* node_modules resolves the module, and Ignored is never produced.
C3_NearestAncestorWins ==
    \A t \in Callers :
        Done(t) /\ call[t] = Input("/p/src", "foo")
        /\ ResolverOf(t).options.extensions = <<".js">>
        => /\ result[t].res # "Ignored"
           /\ \A i \in DOMAIN Ascent :
                  HasIndex(Ascent[i]) /\ (\A j \in 1..(i - 1) : Barren(Ascent[j]))
                  => /\ IsInfo(result[t])
                     /\ result[t].path = join(ModuleDirOf(Ascent[i]), "index.js")

\* C4: query and fragment are carried through resolution unchanged and are
\* not appended to the returned path: a successful result has the request's
\* query and fragment, an empty target and a path that holds neither.
C4_QueryFragmentCarried ==
    \A t \in Callers :
        Done(t) /\ IsInfo(result[t]) =>
            /\ result[t].query = parse(call[t].request).query
            /\ result[t].fragment = parse(call[t].request).fragment
            /\ result[t].target = ""
            /\ IndicesOf(result[t].path, "?", 1) = <<>>
            /\ IndicesOf(result[t].path, "#", 1) = <<>>
            /\ call[t] = Input("/p/src", "./foo.js?x=1#sec")
               => /\ result[t].path = "/p/src/foo.js"
                  /\ result[t].query = "?x=1"
                  /\ result[t].fragment = "#sec"

\* The request with a query and a fragment has been resolved.
C4_Witness ==
    \E t \in Callers :
        /\ Done(t) /\ IsInfo(result[t])
        /\ call[t] = Input("/p/src", "./foo.js?x=1#sec")

\* C5: NotFound is tentative: resolve returns NotFound for a bare request
\* only after every step of the ascending walk, up to the filesystem root,
\* has been tried.
C5_NotFoundAfterWholeAscent ==
    \A t \in Callers :
        Done(t) /\ IsErr(result[t], "NotFound") /\ call[t].path = "/p/src"
        /\ parse(call[t].request).kind = "Normal"
        => \A d \in ancestors(call[t].path) :
               \E i \in DOMAIN probes[t] :
                   key_of(probes[t][i]) = key_of(join(d, MODULE_DIR))

\* C6: a NotFound error carries the original request and the original base
\* directory passed to resolve.
C6_ErrorNamesOriginal ==
    \A t \in Callers :
        Done(t) /\ IsErr(result[t], "NotFound") =>
            /\ result[t].err.request = parse(call[t].request).target
            /\ result[t].err.path = call[t].path

\* A manifest whose main field leads back to its own directory and is
\* neither "." nor "./".
LoopsBack(d) ==
    /\ d \in DOMAIN fs.manifests
    /\ "main" \in DOMAIN fs.manifests[d].raw
    /\ fs.manifests[d].raw["main"] \notin {".", "./"}
    /\ normalize(join(d, fs.manifests[d].raw["main"])) = d

\* An alias entry for key whose value the same entry matches again.
AliasLoops(alias, key) ==
    \E i \in DOMAIN alias :
        /\ alias[i].key = key
        /\ alias[i].value \notin {IgnoreAlias, FalseAlias}
        /\ alias_matches(alias[i].value, key)

\* C7: every resolve call ends: a call returns a result or an error, a
\* main field that leads back to the package's own directory or an alias
\* that matches its own value ends the call with RecursionLimit, and
\* RecursionLimit comes only from such a chain.
C7_EndsWithRecursionLimit ==
    \A t \in Callers :
        /\ Done(t) => result[t].tag \in {"Ok", "Err"}
        /\ Done(t) /\ call[t] = Input("/p/src", "foo") /\ LoopsBack(ModuleDirOf("/p/src"))
           => IsErr(result[t], "RecursionLimit")
        /\ Done(t) /\ call[t].request = "foo"
           /\ AliasLoops(ResolverOf(t).options.alias, "foo")
           => IsErr(result[t], "RecursionLimit")
        /\ Done(t) /\ IsErr(result[t], "RecursionLimit")
           => \/ \E d \in DOMAIN fs.manifests : LoopsBack(d)
              \/ \E i \in DOMAIN ResolverOf(t).options.alias :
                     AliasLoops(ResolverOf(t).options.alias,
                                ResolverOf(t).options.alias[i].key)

\* The number of '/' in s.
Slashes(s) == Cardinality({i \in 1..Len(s) : CharAt(s, i) = "/"})

\* C8: get_module_name_from_request returns the prefix of the target before
\* its second '/' when the target starts with '@' and before its first '/'
\* otherwise, and the whole target when it has fewer slashes than that.
C8_ModuleName ==
    name_out # Unset =>
        LET wanted == IF starts_with(name_in, "@") THEN 2 ELSE 1
        IN /\ Slashes(name_in) < wanted => name_out = name_in
           /\ Slashes(name_in) >= wanted =>
                  \E k \in 1..Len(name_in) :
                      /\ CharAt(name_in, k) = "/"
                      /\ Slashes(SubSeq(name_in, 1, k - 1)) = wanted - 1
                      /\ name_out = SubSeq(name_in, 1, k - 1)
           /\ name_in = "a" => name_out = "a"
           /\ name_in = "a/b" => name_out = "a"
           /\ name_in = "@a" => name_out = "@a"
           /\ name_in = "@a/b" => name_out = "@a/b"
           /\ name_in = "@a/b/c" => name_out = "@a/b"

\* One leading '.' taken off.
Stripped(ext) == IF starts_with(ext, ".") THEN SubSeq(ext, 2, Len(ext)) ELSE ext

NewStripsAndKeeps(r) ==
    /\ DOMAIN r.options.extensions = DOMAIN config.extensions
    /\ \A i \in DOMAIN config.extensions :
           r.options.extensions[i] = Stripped(config.extensions[i])
    /\ config.enforce_extension # "Auto"
       => r.options.enforce_extension = config.enforce_extension

\* C9 as amended: Resolver::new strips one leading '.' from every configured
\* extension; an enforce_extension the caller did not give becomes Enabled if
\* and only if some extension is empty once stripped (configured as "" or
\* as "."); a given enforce_extension is kept.
C9_NewNormalizes ==
    \A n \in DOMAIN resolvers :
        resolvers[n].ctor = "new" =>
            /\ NewStripsAndKeeps(resolvers[n])
            /\ config.enforce_extension = "Auto"
               => /\ resolvers[n].options.enforce_extension \in {"Enabled", "Disabled"}
                  /\ resolvers[n].options.enforce_extension = "Enabled"
                     <=> \E i \in DOMAIN config.extensions :
                             config.extensions[i] \in {"", "."}

\* C9 as claimed: an enforce_extension the caller did not give becomes
\* Enabled if and only if some configured extension is the empty string.
C9_AsClaimed ==
    \A n \in DOMAIN resolvers :
        resolvers[n].ctor = "new" =>
            /\ NewStripsAndKeeps(resolvers[n])
            /\ config.enforce_extension = "Auto"
               => (resolvers[n].options.enforce_extension = "Enabled"
                   <=> \E i \in DOMAIN config.extensions : config.extensions[i] = "")

\* A resolver has been built from the single extension "." with no
\* enforce_extension given.
C9_Witness ==
    \E n \in DOMAIN resolvers :
        /\ resolvers[n].ctor = "new"
        /\ config.extensions = <<".">>
        /\ config.enforce_extension = "Auto"
        /\ resolvers[n].options.enforce_extension = "Enabled"

\* The call run alone on a cold resolver: every load_entry and every
\* load_pkg_file reads the filesystem.
RECURSIVE run_alone(_, _, _)
run_alone_step(options, input, seen, cur) ==
    IF cur.tag = "Pending" /\ cur.res = "load_pkg_file"
    THEN run_alone(options, input,
                   (pkg_file_key(cur.path) :> nearest_manifest(fs, normalize(cur.path)))
                   @@ seen)
    ELSE IF cur.tag = "Pending"
    THEN run_alone(options, input, (key_of(cur.path) :> probe(fs, cur.path)) @@ seen)
    ELSE cur

run_alone(options, input, seen) ==
    run_alone_step(options, input, seen,
                   resolve([options |-> options, view |-> seen],
                           input.path, input.request))

\* What the filesystem holds of the manifest of directory d.
ManifestAt(d) == [fs.manifests[d] EXCEPT !.dir_path = d, !.found = TRUE]

\* The manifest cache holds, for each directory in it, the manifest the
\* filesystem has there.
HoldsManifests(cache) ==
    \A d \in DOMAIN cache : d \in DOMAIN fs.manifests /\ cache[d] = ManifestAt(d)

\* C10: with two callers resolving concurrently, on one resolver or on two
\* resolvers that hold the same manifest cache, whatever the interleaving
\* of their reads and inserts: every cache holds for every path in it what
\* the filesystem holds there, what a call has read and not yet inserted
\* is what the cache holds or will hold for that path, and each call
\* returns what it returns when run alone on a resolver with empty caches.
C10_InterleavingsAgree ==
    /\ \A n \in DOMAIN entries :
           \A k \in DOMAIN entries[n] : entries[n][k] = probe(fs, k)
    /\ HoldsManifests(unsafe_cache.external)
    /\ \A n \in DOMAIN unsafe_cache.own : HoldsManifests(unsafe_cache.own[n])
    /\ \A t \in Callers :
           /\ pc[t] = "loaded" => pending[t].entry = probe(fs, pending[t].path)
           /\ pc[t] = "read"
              => pending[t].entry = nearest_manifest(fs, normalize(pending[t].path))
           /\ Done(t) => result[t] = run_alone(ResolverOf(t).options, call[t], <<>>)

\* Two resolvers hold the external manifest cache and a call runs on each:
\* the one has returned the file it found, the other has read a manifest
\* for its own request and is about to overwrite what is in the cache for
\* that manifest's directory.
C10_Witness ==
    \E t \in Callers, u \in Callers :
        /\ on[t] # on[u]
        /\ ResolverOf(t).unsafe_cache = "external"
        /\ ResolverOf(u).unsafe_cache = "external"
        /\ Done(t) /\ IsInfo(result[t])
        /\ pc[u] \in {"loaded", "read"}
        /\ pending[u].entry.pkg_info.found
        /\ pending[u].entry.pkg_info.dir_path \in DOMAIN unsafe_cache.external

\* C11: a call that repeats an earlier call of the same caller, made when
\* the caches hold what the earlier calls read, returns the result the
\* first of these calls returned: the same path, query and fragment, the
\* same Ignored, or the same error.
C11_WarmCallAgrees ==
    \A t \in Callers :
        Done(t) /\ call[t] \in DOMAIN returned[t]
            => result[t] = returned[t][call[t]].first

\* A caller has made the same call twice and got a file the second time,
\* with every path of the second call answered from the entry cache.
C11_Witness ==
    \E t \in Callers :
        /\ Done(t) /\ IsInfo(result[t])
        /\ call[t] \in DOMAIN returned[t]
        /\ returned[t][call[t]].times = 2
        /\ probes[t] # <<>>
        /\ \A i \in DOMAIN probes[t] : key_of(probes[t][i]) \in DOMAIN entries[on[t]]

\* The function named op, called on its own, has returned.
UnitDone(op) == unit_in.op = op /\ unit_out # NoState

\* The paths the call has passed to load_entry.
UnitProbed == {probes[1][i] : i \in DOMAIN probes[1]}

\* The tree holds a regular file at the path.
FileAt(path) == normalize(path) \in fs.files

\* C12: resolve_as_file with enforcement Enabled never probes the bare path
\* p: it succeeds only with p + ext for a configured extension, so a file at
\* exactly p is not returned when no extension is empty; with enforcement
\* not Enabled a file at p wins before any extension is tried; in both
\* modes, when nothing hits, the result is Resolving with the info unchanged.
C12_EnforceSkipsBarePath ==
    UnitDone("resolve_as_file") =>
        LET info    == unit_in.info
            p       == get_path(info)
            exts    == resolver.options.extensions
            enabled == resolver.options.enforce_extension = "Enabled"
            found(path) == unit_out = Success(with_target(with_path(info, path), ""))
        IN /\ enabled /\ unit_out.tag = "Success"
              => \E i \in DOMAIN exts : FileAt(p \o exts[i]) /\ found(p \o exts[i])
           /\ enabled /\ (\A i \in DOMAIN exts : exts[i] # "")
              => ~found(p) /\ p \notin UnitProbed
           /\ ~enabled /\ FileAt(p) => found(p) /\ probes[1] = <<p>>
           /\ (enabled \/ ~FileAt(p)) /\ (\A i \in DOMAIN exts : ~FileAt(p \o exts[i]))
              => unit_out = Resolving(info)

\* With enforcement Enabled and the extensions "js" and "ts", the file at
\* exactly p was left alone: the call returned Resolving.
C12_Witness ==
    /\ UnitDone("resolve_as_file")
    /\ resolver.options.enforce_extension = "Enabled"
    /\ resolver.options.extensions = <<"js", "ts">>
    /\ FileAt(get_path(unit_in.info))
    /\ unit_out = Resolving(unit_in.info)

\* MainFieldPlugin was applied with the manifest of the directory itself.
OwnManifest ==
    /\ unit_in.op = "MainFieldPlugin"
    /\ unit_in.pkg_info.found
    /\ normalize(get_path(unit_in.info)) = unit_in.pkg_info.dir_path

\* The configured main field names, the value the manifest gives to the
\* i-th of them ("" when it gives none) and the path that value points to.
Fields == resolver.options.main_fields

ValueOf(i) ==
    IF Fields[i] \in DOMAIN unit_in.pkg_info.raw THEN unit_in.pkg_info.raw[Fields[i]]
    ELSE ""

SelfPointing(v) == v \in {".", "./"}

Usable(i) == ValueOf(i) # "" /\ ~SelfPointing(ValueOf(i))

TargetOf(i) == join(unit_in.pkg_info.dir_path, ValueOf(i))

\* The files the i-th main field can resolve to: its target, or its target
\* followed by a configured extension.
FilesOf(i) ==
    {normalize(f) : f \in {g \in {TargetOf(i)} \cup
                                 {TargetOf(i) \o resolver.options.extensions[e] :
                                      e \in DOMAIN resolver.options.extensions} :
                           FileAt(g)}}

Resolvable(i) == Usable(i) /\ FilesOf(i) # {}

\* C13: MainFieldPlugin tries the configured main fields in order; the first
\* whose target resolves decides the result, a main field whose target does
\* not resolve does not end the search, and when none resolves the plugin
\* returns Resolving with the original info.  (Manifests with a field that
\* points to the package itself are the matter of C14.)
C13_FirstSuccessWins ==
    UnitDone("MainFieldPlugin") /\ OwnManifest
    /\ (\A i \in DOMAIN Fields : ~SelfPointing(ValueOf(i)))
        => IF \E i \in DOMAIN Fields : Resolvable(i)
           THEN LET k == CHOOSE i \in DOMAIN Fields :
                             /\ Resolvable(i)
                             /\ \A j \in DOMAIN Fields : Resolvable(j) => i <= j
                IN /\ unit_out.tag = "Success" /\ unit_out.res = "Info"
                   /\ normalize(unit_out.info.path) \in FilesOf(k)
           ELSE unit_out = Resolving(unit_in.info)

\* C14: when the manifest gives "." or "./" to a configured main field, that
\* field is only skipped: every configured field with another string value
\* that no usable field precedes is still used to re-enter _resolve, which
\* probes the path its value points to.
C14_SelfPointingOnlySkipped ==
    UnitDone("MainFieldPlugin") /\ OwnManifest
    /\ (\E j \in DOMAIN Fields : SelfPointing(ValueOf(j)))
        => \A i \in DOMAIN Fields :
               Usable(i) /\ (\A j \in 1..(i - 1) : ~Usable(j))
                   => \E q \in UnitProbed : normalize(q) = normalize(TargetOf(i))

\* C15: with a manifest that belongs to an ancestor of the directory p,
\* MainFieldPlugin returns Resolving with the info unchanged and loads no
\* entry; resolve_as_dir of such a directory looks at p and its main files
\* only; and resolve_as_dir of a path that is not a directory returns
\* Failed(info).
C15_OnlyOwnManifest ==
    /\ UnitDone("MainFieldPlugin") /\ unit_in.pkg_info.found /\ ~OwnManifest
           => unit_out = Resolving(unit_in.info) /\ probes[1] = <<>>
    /\ UnitDone("resolve_as_dir")
           => LET p == normalize(get_path(unit_in.info))
              IN /\ p \notin fs.dirs => unit_out = Failed(unit_in.info)
                 /\ p \in fs.dirs /\ p \notin DOMAIN fs.manifests
                        => /\ \A q \in UnitProbed :
                                  normalize(q) = p \/ parent(normalize(q)) = p
                           /\ unit_out.tag \in {"Success", "Failed"}
                           /\ unit_out.tag = "Success"
                                  => parent(normalize(unit_out.info.path)) = p

\* resolve_as_dir of /p/pkg/sub, below a manifest whose main field names an
\* existing file of /p/pkg, has returned the index file of /p/pkg/sub.
C15_Witness ==
    /\ UnitDone("resolve_as_dir")
    /\ normalize(get_path(unit_in.info)) = "/p/pkg/sub"
    /\ "main" \in DOMAIN fs.manifests["/p/pkg"].raw
    /\ fs.manifests["/p/pkg"].raw["main"] = "lib"
    /\ FileAt("/p/pkg/lib.js")
    /\ unit_out.tag = "Success"
    /\ normalize(unit_out.info.path) = "/p/pkg/sub/index.js"

\* The manifest that encloses node_modules/<module name> of the directory
\* resolve_as_modules was called for, and whether the request names that
\* manifest's own package.
ModuleName == Head(Split(unit_in.info.request.target))

ModulePath == join(join(unit_in.info.path, MODULE_DIR), ModuleName)

ModulePkg == probe(fs, ModulePath).pkg_info

SelfReference == ModulePkg.name = ModuleName

\* The one case in which the exports field is left alone.
ExportsSuppressed == ModulePkg.dir_path = unit_in.info.path /\ ~SelfReference

\* The key the exports map is asked for: "." or "./sub".
Subpath == "." \o SubSeq(unit_in.info.request.target, Len(ModuleName) + 1,
                         Len(unit_in.info.request.target))

NotExported(state) ==
    state.tag = "Error" /\ state.err.kind = "PackagePathNotExported"

\* The exports field is left alone when the manifest's directory is
\* original_dir and the request is not a self-reference, and in every other
\* case it is consulted before anything else.
ExportsConsultedOrNot ==
    /\ ExportsSuppressed => ~NotExported(unit_out)
    /\ ExportsSuppressed /\ unit_out.tag = "Success" /\ Subpath = "."
           => normalize(unit_out.info.path) = "/p/src/node_modules/foo/index.js"
    /\ ~ExportsSuppressed /\ Subpath \notin DOMAIN ModulePkg.exports
           => /\ NotExported(unit_out)
              /\ Len(probes[1]) = 2
    /\ ~ExportsSuppressed /\ Subpath \in DOMAIN ModulePkg.exports
           => /\ unit_out.tag = "Success"
              /\ normalize(unit_out.info.path)
                     = normalize(join(ModulePkg.dir_path,
                                      ModulePkg.exports[Subpath]))

\* The module path is a directory or the request is a self-reference:
\* resolve_as_modules goes through the manifest's fields.  Otherwise it
\* tries the request as a file under node_modules and nothing else.
ThroughManifest == normalize(ModulePath) \in fs.dirs \/ SelfReference

\* C16 as amended: in resolve_as_modules, when the module path is a
\* directory or a self-reference and has an enclosing manifest, the exports
\* field is left alone exactly when the manifest's directory is original_dir
\* and the request is not a self-reference.  Elsewhere it is consulted
\* first: a subpath it does not list fails before any other entry is
\* loaded, and a subpath it lists is resolved to the file it names.  When
\* the module path is neither a directory nor a self-reference the exports
\* field is not consulted, whatever the manifest.
C16_ExportsSuppression ==
    UnitDone("resolve_as_modules")
    /\ normalize(join(unit_in.info.path, MODULE_DIR)) \in fs.dirs
    /\ ModulePkg.found
    /\ ModulePkg.exports # <<>>
        => /\ ~ThroughManifest => ~NotExported(unit_out)
           /\ ThroughManifest => ExportsConsultedOrNot

\* C16 as claimed: whenever a manifest is found for the module path, the
\* exports field is left alone when the manifest's directory is original_dir
\* and the request is not a self-reference, and is consulted first in every
\* other case: a subpath it does not list fails, a subpath it lists is
\* resolved to the file it names.
C16_AsClaimed ==
    UnitDone("resolve_as_modules")
    /\ normalize(join(unit_in.info.path, MODULE_DIR)) \in fs.dirs
    /\ ModulePkg.found
    /\ ModulePkg.exports # <<>>
        => ExportsConsultedOrNot

\* The manifest of /p/src, named other, lists no "." in its exports, the
\* request foo was resolved all the same, to the module's index file.
C16_Witness ==
    /\ UnitDone("resolve_as_modules")
    /\ ModulePkg.found /\ ModulePkg.dir_path = "/p/src" /\ ModulePkg.name = "other"
    /\ ModulePkg.exports # <<>> /\ Subpath = "." /\ "." \notin DOMAIN ModulePkg.exports
    /\ unit_out.tag = "Success"
    /\ normalize(unit_out.info.path) = "/p/src/node_modules/foo/index.js"

\* The call loaded an entry at or below the directory.
ProbedBelow(dir) ==
    \E q \in UnitProbed : normalize(q) = dir \/ starts_with(normalize(q), dir \o "/")

\* C17: state.then(op) applies op to a Resolving state only and returns
\* Success, Failed and Error as they are; and in _resolve a fatal error ends
\* the call: a probe that fails or meets a manifest that does not parse is
\* the last probe and its error is the result, an exports map that does not
\* list the request fails the call before a main field is followed or the
\* parent directory is tried.
C17_FatalErrorsShortCircuit ==
    /\ UnitDone("then")
           => unit_out = IF unit_in.state.tag = "Resolving"
                         THEN then_op(unit_in.state.info)
                         ELSE unit_in.state
    /\ UnitDone("_resolve")
           => /\ \A i \in DOMAIN probes[1] :
                     probe(fs, probes[1][i]).tag = "Err"
                         => /\ i = Len(probes[1])
                            /\ unit_out.tag = "Error"
                            /\ unit_out.err = probe(fs, probes[1][i]).err
              /\ ( /\ unit_in.info.request.target = "foo"
                   /\ resolver.options.alias = <<>>
                   /\ \A q \in {"/p/src/foo", "/p/src/node_modules",
                                  "/p/src/node_modules/foo"} :
                          probe(fs, q).tag = "Ok"
                   /\ probe(fs, "/p/src/node_modules/foo").pkg_info.exports # <<>>
                   /\ "." \notin DOMAIN probe(fs, "/p/src/node_modules/foo").pkg_info.exports )
                     => /\ NotExported(unit_out)
                        /\ ~ProbedBelow("/p/src/node_modules/foo/lib")
                        /\ ~ProbedBelow("/p/src/node_modules/foo/esm")
                        /\ ~ProbedBelow("/p/node_modules")

\* The probe that follows the main field "module" failed: the call returned
\* that error, and neither the main field "main", whose file exists, nor the
\* parent's node_modules was tried.
C17_Witness ==
    /\ UnitDone("_resolve")
    /\ fs.io_errors = {"/p/src/node_modules/foo/esm"}
    /\ unit_out.tag = "Error" /\ unit_out.err.kind = "Io"
    /\ FileAt("/p/src/node_modules/foo/lib.js")
    /\ ~ProbedBelow("/p/src/node_modules/foo/lib.js")
    /\ ~ProbedBelow("/p/node_modules")


\* The files resolve_as_file can find for a path: the path itself, or the
\* path followed by a configured extension, in the order they are tried.
FileCandidates(path) ==
    <<path>> \o [e \in DOMAIN resolver.options.extensions |->
                    path \o resolver.options.extensions[e]]

\* C18: in resolve_as_modules, when node_modules is a directory, the module
\* path is not and the request is no self-reference, the request is tried
\* as a file under node_modules, extensions included; a hit is the result,
\* and otherwise the resolution goes on with the original info: at the root
\* it ends in Failed of the original info, elsewhere the parent directory
\* is searched for the unchanged request (its manifest is looked up for
\* the request under the parent's node_modules, which is probed).
C18_FileUnderNodeModules ==
    UnitDone("resolve_as_modules")
    /\ normalize(join(unit_in.info.path, MODULE_DIR)) \in fs.dirs
    /\ normalize(ModulePath) \notin fs.dirs
    /\ ~(ModulePkg.found /\ SelfReference)
        => LET tried == FileCandidates(join(join(unit_in.info.path, MODULE_DIR),
                                            unit_in.info.request.target))
               up    == parent(unit_in.info.path)
           IN IF \E i \in DOMAIN tried : FileAt(tried[i])
              THEN \E i \in DOMAIN tried :
                      /\ FileAt(tried[i])
                      /\ \A j \in 1..(i - 1) : ~FileAt(tried[j])
                      /\ unit_out = Success([path |-> tried[i],
                                              request |-> [unit_in.info.request EXCEPT
                                                              !.target = "",
                                                              !.kind = "Empty"]])
              ELSE /\ \A i \in DOMAIN tried : tried[i] \in UnitProbed
                   /\ up = NoParent => unit_out = Failed(unit_in.info)
                   /\ up # NoParent
                          => /\ join(up, MODULE_DIR) \in UnitProbed
                             /\ pkg_file_key(join(join(up, MODULE_DIR),
                                                   unit_in.info.request.target))
                                    \in DOMAIN view[1]
                             /\ unit_out.tag \in {"Success", "Error"}
                             /\ FileAt(join(up, "node_modules/foo/index.js"))
                                    => /\ unit_out.tag = "Success"
                                       /\ normalize(unit_out.info.path)
                                              = join(up, "node_modules/foo/index.js")
                                       /\ unit_out.info.request.query
                                              = unit_in.info.request.query

\* At the root, /node_modules holds no foo and no foo.js: the call ended in
\* Failed of the info it was given.
C18_Witness ==
    /\ UnitDone("resolve_as_modules")
    /\ unit_in.info.path = "/"
    /\ "/node_modules" \in fs.dirs /\ "/node_modules/foo" \notin fs.dirs
    /\ "/node_modules/foo" \in UnitProbed /\ "/node_modules/foo.js" \in UnitProbed
    /\ unit_out = Failed(unit_in.info)


\* C19: no resolution ends undecided. resolve_as_modules never returns
\* Resolving; when the directory of the module under node_modules gives no
\* file, the parent directory is searched; _resolve ends in Success or in
\* an error for a request of every kind, so that resolve returns
\* Ok(Info | Ignored) or Err and no unreachable branch is executed.
C19_NoUndecidedEnd ==
    /\ UnitDone("resolve_as_modules")
           => /\ unit_out.tag \in {"Success", "Error", "Failed"}
              /\ ( /\ (unit_out.tag = "Error" => unit_out.err.kind = "NotFound")
                   /\ unit_out.tag # "Success"
                   /\ normalize(ModulePath) \in fs.dirs
                   /\ ~ModulePkg.found
                   /\ parent(unit_in.info.path) # NoParent )
                     => \E q \in UnitProbed :
                           starts_with(q, join(parent(unit_in.info.path), MODULE_DIR))
    /\ UnitDone("_resolve")
           => /\ unit_out.tag \in {"Success", "Error"}
              /\ unit_out.tag = "Success" => unit_out.res \in {"Info", "Ignored"}
              /\ normalize_result(unit_out).tag \in {"Ok", "Err"}
=============================================================================
